---- MODULE Spec2Model ----
(***************************************************************************)
(* smart-study: the note / session state machine of the App component, the *)
(* Editor and the AIAnalysisPanel, with the localStorage blobs behind it    *)
(* and the asynchronous calls to the analysis provider.                     *)
(*                                                                          *)
(* React is modelled at the grain the code depends on: an event handler     *)
(* (or the continuation of an awaited call) replaces state and commits a    *)
(* render; the effects whose dependencies changed then run one at a time,   *)
(* in declaration order, with the values of the committed render; state     *)
(* they set is queued and committed by the next render.  A continuation     *)
(* of an awaited call sees the props and the handlers of the render in      *)
(* which its handler was started (its closure).                             *)
(***************************************************************************)
EXTENDS Integers, Sequences, FiniteSets, TLC

(* ------------------------------ bounds --------------------------------- *)

\* user-initiated operations (events and restarts) in one behaviour
MaxOps == 3
\* provider calls in flight at once
MaxInFlight == 2

(* ---------------------------- input values ----------------------------- *)

Users == {"u1", "u2"}
Titles == {"T"}
Contents == {"", "c2"}
Answers == {"", "ans"}
ChatInputs == {"hi"}
\* what analyzeNoteContent may resolve to
AnalysisResponses ==
  { [summary |-> <<"s1">>, questions |-> <<"q1">>],
    [summary |-> <<"s1", "s2">>, questions |-> <<"q1", "q2">>] }
\* what queryNote's provider may answer: a text and an optional attachment
ChatAnswers ==
  { [text |-> "reply", attachment |-> "undefined"],
    [text |-> "reply", attachment |-> "code"] }

(* -------------------------------- state -------------------------------- *)

VARIABLES
  user,            \* App state: the id of the active user, or "none" (null)
  notes,           \* App state: the note collection
  selectedNoteId,  \* App state: a note id, or NullId (null)
  pendingEffects,  \* the effects of the last commit that have not run yet, in order
  queued,          \* state set by effects, waiting for the next render
  currentUser,     \* localStorage 'smart-study-current-user': a user id or "none"
  blobs,           \* localStorage 'smart-study-notes-<id>', per user id
  panel,           \* AIAnalysisPanel and Editor state: the busy flags, error, alert
  inflight,        \* the awaited provider calls, each with the closure of its handler
  clock,           \* Date.now()
  nextId,          \* the next value uuidv4() returns
  ops,             \* operations started so far
  storedUsers,     \* localStorage 'smart-study-users': the registered users
  authError,       \* Auth state: error, "" when Auth shows none or is not rendered
  owner,           \* history: the user each note was created by, as <<note id, user>>
  applied          \* history: the call whose continuation was the last handler to run

vars == <<user, notes, selectedNoteId, pendingEffects, queued, currentUser, blobs,
          panel, inflight, clock, nextId, ops, storedUsers, authError, owner, applied>>

(* --------------------------- optional values --------------------------- *)

\* An optional object (analysis, chatHistory) is <<>> when the property is
\* missing and <<v>> when it is there.  An optional scalar (isCorrect,
\* feedback, attachment) is "absent" when the object has no such property,
\* "undefined" when it has the property with the value undefined, or its value.
\* selectedNoteId === null: no uuid equals it
NullId == 0

None == <<>>
Some(v) == <<v>>
IsSome(o) == Len(o) = 1
Val(o) == o[1]

Range(s) == { s[i] : i \in DOMAIN s }

RECURSIVE SelectSeqBy(_, _)
\* s.filter(i => keep[i]) for a sequence of booleans keep of the same length
SelectSeqBy(s, keep) ==
  IF s = <<>> THEN <<>>
  ELSE (IF Head(keep) THEN <<Head(s)>> ELSE <<>>) \o SelectSeqBy(Tail(s), Tail(keep))

(* ------------------------------- types.ts ------------------------------ *)

QuizItem(id, question) ==
  [id |-> id, question |-> question, userAnswer |-> "",
   isCorrect |-> "absent", feedback |-> "absent"]

ChatMessage(id, role, content, attachment, timestamp) ==
  [id |-> id, role |-> role, content |-> content,
   attachment |-> attachment, timestamp |-> timestamp]

\* a new note; createdAt and updatedAt are two reads of the clock
Note(id, createdAt, updatedAt) ==
  [id |-> id, title |-> "", content |-> "", createdAt |-> createdAt,
   updatedAt |-> updatedAt, analysis |-> None, chatHistory |-> None]

\* typeof q === 'string': a legacy question is stored as a bare string
LegacyQuestion(q) == [string |-> q]
IsString(q) == "string" \in DOMAIN q

(* ----------------------------- localStorage ---------------------------- *)

\* JSON.stringify drops the properties whose value is undefined
StringifyScalar(v) == IF v = "undefined" THEN "absent" ELSE v

StringifyQuestion(q) ==
  IF IsString(q) THEN q
  ELSE [q EXCEPT !.isCorrect = StringifyScalar(@), !.feedback = StringifyScalar(@)]

StringifyMessage(m) == [m EXCEPT !.attachment = StringifyScalar(@)]

StringifyNote(n) ==
  [n EXCEPT
     !.analysis = IF IsSome(@)
                    THEN Some([Val(@) EXCEPT !.questions =
                                 [i \in DOMAIN @ |-> StringifyQuestion(@[i])]])
                    ELSE None,
     !.chatHistory = IF IsSome(@)
                       THEN Some([i \in DOMAIN Val(@) |-> StringifyMessage(Val(@)[i])])
                       ELSE None]

\* JSON.stringify(notes), as the value JSON.parse gives back
JSONstringify(ns) == [i \in DOMAIN ns |-> StringifyNote(ns[i])]

\* a stored item: getItem returns null (absent), a text that does not parse
\* (corrupt), or the text of a note list (json)
AbsentBlob == [kind |-> "absent", notes |-> <<>>]
CorruptBlob == [kind |-> "corrupt", notes |-> <<>>]
JsonBlob(ns) == [kind |-> "json", notes |-> ns]

(* ------------------------------ text tests ----------------------------- *)

\* no trimming
TrimNothing(s) == s

\* s.trim(): the strings of the model that consist of white space only
Trim(s) == IF s \in {"", " "} THEN "" ELSE s
\* !s : the empty string is the only falsy string
Falsy(s) == s = ""

(* --------------------------- the note collection ----------------------- *)

HasNote(ns, id) == \E i \in DOMAIN ns : ns[i].id = id

\* ns.find(n => n.id === id), for an id that is there
FindNote(ns, id) ==
  ns[CHOOSE i \in DOMAIN ns : ns[i].id = id /\ \A j \in 1..(i - 1) : ns[j].id # id]

\* the update written over the note that is displayed instead of the note
\* with the id of the update
handleUpdateNoteDisplayed(closureNotes, updatedNote) ==
  [i \in DOMAIN closureNotes |->
     IF closureNotes[i].id = selectedNoteId THEN updatedNote ELSE closureNotes[i]]

\* App.handleUpdateNote: setNotes(notes.map(n => n.id === updatedNote.id ? updatedNote : n)),
\* notes being the collection of the render that created the handler
handleUpdateNote(closureNotes, updatedNote) ==
  [i \in DOMAIN closureNotes |->
     IF closureNotes[i].id = updatedNote.id THEN updatedNote ELSE closureNotes[i]]

\* the first note dropped, whatever the id
FilterOutFirst(ns, id) == IF ns = <<>> THEN <<>> ELSE Tail(ns)

\* notes.filter(n => n.id !== id)
FilterOut(ns, id) == SelectSeqBy(ns, [i \in DOMAIN ns |-> ns[i].id # id])

(* ------------------------- AIAnalysisPanel, pure parts ----------------- *)

\* the new items appended to the items the note has
AnalyzedNoteMerged(note, analysisData, idBase, now) ==
  [note EXCEPT
     !.analysis = Some([summary |-> analysisData.summary,
                        questions |-> (IF IsSome(note.analysis)
                                         THEN Val(note.analysis).questions ELSE <<>>) \o
                                      [i \in DOMAIN analysisData.questions |->
                                         QuizItem(idBase + i - 1, analysisData.questions[i])]]),
     !.updatedAt = now]

\* handleAnalyze, lines 46-60: the note passed to onUpdateNote
AnalyzedNote(note, analysisData, idBase, now) ==
  [note EXCEPT
     !.analysis = Some([summary |-> analysisData.summary,
                        questions |-> [i \in DOMAIN analysisData.questions |->
                                         QuizItem(idBase + i - 1, analysisData.questions[i])]]),
     !.updatedAt = now]

\* the answer set, the grade cleared only when the text is another one
AnswerChangedNoteIfDifferent(note, questionId, answer) ==
  LET qs == Val(note.analysis).questions
      updatedQuestions ==
        [i \in DOMAIN qs |->
           IF qs[i].id = questionId /\ qs[i].userAnswer # answer
             THEN [qs[i] EXCEPT !.userAnswer = answer,
                                !.isCorrect = "undefined", !.feedback = "undefined"]
             ELSE qs[i]]
  IN  [note EXCEPT !.analysis = Some([Val(note.analysis) EXCEPT !.questions = updatedQuestions])]

\* handleAnswerChange, lines 71-81 (note.analysis is there)
AnswerChangedNote(note, questionId, answer) ==
  LET qs == Val(note.analysis).questions
      updatedQuestions ==
        [i \in DOMAIN qs |->
           IF qs[i].id = questionId
             THEN [qs[i] EXCEPT !.userAnswer = answer,
                                !.isCorrect = "undefined", !.feedback = "undefined"]
             ELSE qs[i]]
  IN  [note EXCEPT !.analysis = Some([Val(note.analysis) EXCEPT !.questions = updatedQuestions])]

\* every item taken, answered or not
itemsToGradeAll(note) == Val(note.analysis).questions

\* handleCheckAnswers, line 88
itemsToGrade(note) ==
  LET qs == Val(note.analysis).questions
  IN  SelectSeqBy(qs, [i \in DOMAIN qs |-> Trim(qs[i].userAnswer) # ""])

\* results.evaluations.find(e => e.questionId === q.id)
HasEvaluation(evaluations, id) == \E k \in DOMAIN evaluations : evaluations[k].questionId = id
FindEvaluation(evaluations, id) ==
  evaluations[CHOOSE k \in DOMAIN evaluations :
                 /\ evaluations[k].questionId = id
                 /\ \A j \in 1..(k - 1) : evaluations[j].questionId # id]

\* the verdict set without the feedback
EvaluatedNoteVerdictOnly(note, evaluations) ==
  LET qs == Val(note.analysis).questions
      updatedQuestions ==
        [i \in DOMAIN qs |->
           IF HasEvaluation(evaluations, qs[i].id)
             THEN [qs[i] EXCEPT
                     !.isCorrect = FindEvaluation(evaluations, qs[i].id).isCorrect]
             ELSE qs[i]]
  IN  [note EXCEPT !.analysis = Some([Val(note.analysis) EXCEPT !.questions = updatedQuestions])]

\* the graded items kept and the others dropped: a filter in place of the map
EvaluatedNoteGradedOnly(note, evaluations) ==
  LET qs == Val(note.analysis).questions
      graded ==
        [i \in DOMAIN qs |->
           IF HasEvaluation(evaluations, qs[i].id)
             THEN [qs[i] EXCEPT
                     !.isCorrect = FindEvaluation(evaluations, qs[i].id).isCorrect,
                     !.feedback = FindEvaluation(evaluations, qs[i].id).feedback]
             ELSE qs[i]]
      updatedQuestions ==
        SelectSeqBy(graded, [i \in DOMAIN qs |-> HasEvaluation(evaluations, qs[i].id)])
  IN  [note EXCEPT !.analysis = Some([Val(note.analysis) EXCEPT !.questions = updatedQuestions])]

\* handleCheckAnswers, lines 104-118: the note passed to onUpdateNote
EvaluatedNote(note, evaluations) ==
  LET qs == Val(note.analysis).questions
      updatedQuestions ==
        [i \in DOMAIN qs |->
           IF HasEvaluation(evaluations, qs[i].id)
             THEN [qs[i] EXCEPT
                     !.isCorrect = FindEvaluation(evaluations, qs[i].id).isCorrect,
                     !.feedback = FindEvaluation(evaluations, qs[i].id).feedback]
             ELSE qs[i]]
  IN  [note EXCEPT !.analysis = Some([Val(note.analysis) EXCEPT !.questions = updatedQuestions])]

\* handleSendMessage, lines 137-138: note.chatHistory || [] with the new message
updatedHistory(note, newUserMsg) ==
  (IF IsSome(note.chatHistory) THEN Val(note.chatHistory) ELSE <<>>) \o <<newUserMsg>>

\* handleSendMessage, lines 140-143, 158-161: {...note, chatHistory: history}
WithHistory(note, history) == [note EXCEPT !.chatHistory = Some(history)]

(* ------------------------------ geminiService -------------------------- *)

\* analyzeNoteContent, lines 44-61: the note content is put into the prompt
analyzeRequest(noteContent) == [noteContent |-> noteContent]

\* evaluateQuizAnswers, line 110: quizItems.filter(q => q.userAnswer && q.userAnswer.trim() !== '')
itemsToCheck(quizItems) ==
  SelectSeqBy(quizItems,
              [i \in DOMAIN quizItems |->
                 ~Falsy(quizItems[i].userAnswer) /\ Trim(quizItems[i].userAnswer) # ""])

\* evaluateQuizAnswers, lines 131-135: the submission sent with the prompt
itemsPayload(items) ==
  [i \in DOMAIN items |->
     [questionId |-> items[i].id, question |-> items[i].question,
      userAnswer |-> items[i].userAnswer]]

\* evaluateQuizAnswers, lines 110-139: the provider is called unless there is
\* no item to check (line 112 returns no evaluations without a call)
evaluateRequest(quizItems) ==
  [quizItems |-> itemsPayload(itemsToCheck(quizItems)),
   called |-> itemsToCheck(quizItems) # <<>>]

\* queryNote, lines 182-236: the note content goes into the system instruction,
\* the turns sent are the history (role and text) followed by the new message
queryRequest(noteContent, history, newMessage) ==
  [noteContent |-> noteContent,
   contents |-> [i \in DOMAIN history |->
                   [role |-> history[i].role, text |-> history[i].content]]
                \o <<[role |-> "user", text |-> newMessage]>>]

\* queryNote, line 250: the text returned when the provider call fails
FallbackText == "Oof"

\* queryNote never rejects: a failure of the provider is caught (lines 247-251)
\* and answered with the fallback text, without an attachment property
queryNoteResults ==
  ChatAnswers \cup {[text |-> FallbackText, attachment |-> "undefined"]}

\* what the evaluation provider may return for a note: entries for any of the
\* note's questions (submitted or not), each with a verdict and a feedback
EvaluationResponses(note) ==
  LET qs == Val(note.analysis).questions
      verdicts == [DOMAIN qs -> {"skip", "true", "false"}]
  IN  { SelectSeqBy([i \in DOMAIN qs |->
                       [questionId |-> qs[i].id, isCorrect |-> v[i], feedback |-> "fb"]],
                    [i \in DOMAIN qs |-> v[i] # "skip"]) : v \in verdicts }

(* ------------------------- App: load and migration --------------------- *)

\* the test of lines 35-36: the note carries legacy (string) questions
IsLegacy(note) ==
  /\ IsSome(note.analysis)
  /\ Len(Val(note.analysis).questions) > 0
  /\ IsString(Val(note.analysis).questions[1])

\* uuidv4() calls the migration of one note makes
FreshIdsFor(note) == IF IsLegacy(note) THEN Len(Val(note.analysis).questions) ELSE 0

RECURSIVE FreshIdsBefore(_, _)
FreshIdsBefore(parsedNotes, i) ==
  IF i <= 1 THEN 0 ELSE FreshIdsBefore(parsedNotes, i - 1) + FreshIdsFor(parsedNotes[i - 1])

\* every item of a migrated note given the same id
migrateNoteOneId(note, idBase) ==
  IF IsLegacy(note)
    THEN LET legacyQuestions == Val(note.analysis).questions
         IN  [note EXCEPT !.analysis = Some([Val(note.analysis) EXCEPT !.questions =
                [k \in DOMAIN legacyQuestions |->
                   QuizItem(idBase, legacyQuestions[k].string)]])]
    ELSE note

\* the items rebuilt from the question texts whatever form the questions have
migrateNoteAlways(note, idBase) ==
  IF IsSome(note.analysis) /\ Len(Val(note.analysis).questions) > 0
    THEN LET questions == Val(note.analysis).questions
         IN  [note EXCEPT !.analysis = Some([Val(note.analysis) EXCEPT !.questions =
                [k \in DOMAIN questions |->
                   QuizItem(idBase + k - 1,
                            IF IsString(questions[k]) THEN questions[k].string
                                                      ELSE questions[k].question)]])]
    ELSE note

\* a migrated note stamped anew instead of copied
migrateNoteRestamped(note, idBase) ==
  IF IsLegacy(note)
    THEN LET legacyQuestions == Val(note.analysis).questions
         IN  [note EXCEPT !.createdAt = 0,
                          !.analysis = Some([Val(note.analysis) EXCEPT !.questions =
                [k \in DOMAIN legacyQuestions |->
                   QuizItem(idBase + k - 1, legacyQuestions[k].string)]])]
    ELSE note

\* lines 34-52: one element of parsedNotes.map(...)
migrateNote(note, idBase) ==
  IF IsLegacy(note)
    THEN LET legacyQuestions == Val(note.analysis).questions
         IN  [note EXCEPT !.analysis = Some([Val(note.analysis) EXCEPT !.questions =
                [k \in DOMAIN legacyQuestions |->
                   QuizItem(idBase + k - 1, legacyQuestions[k].string)]])]
    ELSE note

migratedNotes(parsedNotes, idBase) ==
  [i \in DOMAIN parsedNotes |->
     migrateNote(parsedNotes[i], idBase + FreshIdsBefore(parsedNotes, i))]

(* ---------------------------- state, continued ------------------------ *)

NoUpdates == [user |-> None, notes |-> None, sel |-> None]
\* the state of the mounted AIAnalysisPanel (lines 18-24) and Editor (line 13),
\* and the alert box last shown by the Editor
InitialPanel ==
  [isAnalyzing |-> FALSE, isChecking |-> FALSE, isChatting |-> FALSE, error |-> "none",
   isProcessingImage |-> FALSE, alert |-> "none"]

\* every effect of the last commit has run and no state is waiting for a render
Settled == pendingEffects = <<>> /\ queued = NoUpdates

\* the Editor and the AIAnalysisPanel are rendered (App, lines 126 and 146)
Mounted(u, ns, sel) == u # "none" /\ HasNote(ns, sel)
selectedNote == FindNote(notes, selectedNoteId)

\* a continuation of an unmounted panel instance sets state nobody renders
Orphaned(calls) == [i \in DOMAIN calls |-> [calls[i] EXCEPT !.live = FALSE]]

\* the panel across a commit: an unmounted panel loses its state, and a panel
\* mounted later starts from the initial state
PanelCommit(u, ns, sel, p, calls) ==
  IF Mounted(user, notes, selectedNoteId) /\ ~Mounted(u, ns, sel)
    THEN panel' = InitialPanel /\ inflight' = Orphaned(calls)
    ELSE panel' = p /\ inflight' = calls

RemoveAt(s, i) == SubSeq(s, 1, i - 1) \o SubSeq(s, i + 1, Len(s))

(* ----------------------- persisted data at start ----------------------- *)

StoredNewest ==
  [id |-> 1, title |-> "T", content |-> "c1", createdAt |-> 2, updatedAt |-> 3,
   analysis |-> Some([summary |-> <<"s1">>,
                      questions |-> <<[id |-> 2, question |-> "q1", userAnswer |-> "ans",
                                       isCorrect |-> "true", feedback |-> "fb"],
                                      [id |-> 3, question |-> "q2", userAnswer |-> "",
                                       isCorrect |-> "absent", feedback |-> "absent"]>>]),
   chatHistory |-> Some(<<ChatMessage(4, "user", "hi", "absent", 3),
                          ChatMessage(5, "model", "reply", "absent", 3)>>)]
StoredOlder ==
  [id |-> 6, title |-> "", content |-> "c2", createdAt |-> 1, updatedAt |-> 1,
   analysis |-> None, chatHistory |-> None]
StoredLegacy ==
  [id |-> 1, title |-> "T", content |-> "c1", createdAt |-> 1, updatedAt |-> 1,
   analysis |-> Some([summary |-> <<"s1">>,
                      questions |-> <<LegacyQuestion("q1"), LegacyQuestion("q2")>>]),
   chatHistory |-> None]
StoredOther ==
  [id |-> 7, title |-> "T", content |-> "c2", createdAt |-> 1, updatedAt |-> 1,
   analysis |-> None, chatHistory |-> None]

\* what may be stored for the first user when the app starts: nothing, a text
\* that does not parse, a collection written by an older version, a collection
\* written by this version
InitialBlobs ==
  { AbsentBlob, CorruptBlob, JsonBlob(<<StoredLegacy>>),
    JsonBlob(<<StoredNewest, StoredOlder>>) }

(* --------------------------------- Init -------------------------------- *)

\* User (types.ts), as handleSubmit builds it (part_001 lines 41-45)
User(id, username, password) == [id |-> id, username |-> username, password |-> password]

\* the two users whose notes are stored have registered
RegisteredUsers == <<User("u1", "alice", "pw1"), User("u2", "bob", "pw2")>>

\* App is mounted (user null, notes [], selection null) and its three effects
\* are about to run
Mount ==
  /\ authError = ""
  /\ user = "none" /\ notes = <<>> /\ selectedNoteId = NullId
  /\ pendingEffects = <<"session", "load", "persist">>
  /\ queued = NoUpdates
  /\ panel = InitialPanel
  /\ inflight = <<>>

Init ==
  /\ Mount
  /\ storedUsers = RegisteredUsers
  /\ currentUser \in {"none", "u1"}
  /\ \E b \in InitialBlobs : blobs = [u \in Users |-> IF u = "u1" THEN b ELSE JsonBlob(<<StoredOther>>)]
  /\ clock = 4
  /\ nextId = 10
  /\ ops = 0
  /\ owner = {<<1, "u1">>, <<6, "u1">>, <<7, "u2">>}
  /\ applied = None

(* ------------------------------ App: effects --------------------------- *)

\* effect 1 (lines 18-23): resume the session stored in localStorage
SessionEffect ==
  /\ pendingEffects # <<>> /\ Head(pendingEffects) = "session"
  /\ pendingEffects' = Tail(pendingEffects)
  /\ queued' = IF currentUser # "none"
                 THEN [queued EXCEPT !.user = Some(currentUser)]
                 ELSE queued
  /\ UNCHANGED <<user, notes, selectedNoteId, currentUser, blobs, panel, inflight,
                 clock, nextId, ops, owner>>
  /\ UNCHANGED applied
  /\ UNCHANGED <<storedUsers, authError>>

\* effect 2 without the try / catch: a text that does not parse sets nothing
LoadUpdatesUncaught(savedNotes) ==
  IF user # "none"
    THEN IF savedNotes.kind = "json"
           THEN LET migrated == migratedNotes(savedNotes.notes, nextId)
                IN  [queued EXCEPT
                       !.notes = Some(migrated),
                       !.sel = Some(IF Len(migrated) > 0 THEN migrated[1].id ELSE NullId)]
           ELSE IF savedNotes.kind = "corrupt"
             THEN queued
             ELSE [queued EXCEPT !.notes = Some(<<>>), !.sel = Some(NullId)]
    ELSE [queued EXCEPT !.notes = Some(<<>>), !.sel = Some(NullId)]

\* the setNotes / setSelectedNoteId calls of effect 2 (lines 26-73)
LoadUpdates(savedNotes) ==
  IF user # "none"
    THEN IF savedNotes.kind = "json"
           THEN LET migrated == migratedNotes(savedNotes.notes, nextId)
                IN  [queued EXCEPT
                       !.notes = Some(migrated),
                       !.sel = Some(IF Len(migrated) > 0 THEN migrated[1].id ELSE NullId)]
           ELSE IF savedNotes.kind = "corrupt"
             THEN [queued EXCEPT !.notes = Some(<<>>)]
             ELSE [queued EXCEPT !.notes = Some(<<>>), !.sel = Some(NullId)]
    ELSE [queued EXCEPT !.notes = Some(<<>>), !.sel = Some(NullId)]

\* effect 2 (lines 26-73): load and migrate the notes of the user
LoadEffect ==
  /\ pendingEffects # <<>> /\ Head(pendingEffects) = "load"
  /\ pendingEffects' = Tail(pendingEffects)
  /\ LET savedNotes == IF user # "none" THEN blobs[user] ELSE AbsentBlob
     IN  /\ queued' = LoadUpdates(savedNotes)
         /\ nextId' = nextId + (IF user # "none" /\ savedNotes.kind = "json"
                                  THEN FreshIdsBefore(savedNotes.notes, Len(savedNotes.notes) + 1)
                                  ELSE 0)
  /\ UNCHANGED <<user, notes, selectedNoteId, currentUser, blobs, panel, inflight,
                 clock, ops, owner>>
  /\ UNCHANGED applied
  /\ UNCHANGED <<storedUsers, authError>>

\* as Persisted, but without the test of the user: the key of a missing user
\* is taken to be the one of the first user
PersistedUntested(store, u, ns) ==
  [store EXCEPT ![IF u # "none" THEN u ELSE "u1"] = JsonBlob(JSONstringify(ns))]

\* as Persisted, but a text already stored under the key is left as it is
PersistedIfAbsent(store, u, ns) ==
  IF u # "none" /\ store[u].kind = "absent"
    THEN [store EXCEPT ![u] = JsonBlob(JSONstringify(ns))]
    ELSE store

\* the localStorage.setItem of effect 3 (lines 77-79)
Persisted(store, u, ns) ==
  IF u # "none" THEN [store EXCEPT ![u] = JsonBlob(JSONstringify(ns))] ELSE store

\* effect 3 (lines 76-80): persist the notes of the committed render
PersistEffect ==
  /\ pendingEffects # <<>> /\ Head(pendingEffects) = "persist"
  /\ pendingEffects' = Tail(pendingEffects)
  /\ blobs' = Persisted(blobs, user, notes)
  /\ UNCHANGED <<user, notes, selectedNoteId, queued, currentUser, panel, inflight,
                 clock, nextId, ops, owner>>
  /\ UNCHANGED applied
  /\ UNCHANGED <<storedUsers, authError>>

\* effect 3 with the dependency list of effect 2: [user] only
EffectsAfterUserOnly(userSet, notesSet) ==
  IF userSet THEN <<"load", "persist">> ELSE <<>>

\* the effects a commit schedules: those with a changed dependency
EffectsAfter(userSet, notesSet) ==
  (IF userSet THEN <<"load">> ELSE <<>>) \o
  (IF userSet \/ notesSet THEN <<"persist">> ELSE <<>>)

\* the render that commits the state the effects have set
Render ==
  /\ pendingEffects = <<>> /\ queued # NoUpdates
  /\ LET u == IF IsSome(queued.user) THEN Val(queued.user) ELSE user
         ns == IF IsSome(queued.notes) THEN Val(queued.notes) ELSE notes
         sel == IF IsSome(queued.sel) THEN Val(queued.sel) ELSE selectedNoteId
     IN  /\ user' = u /\ notes' = ns /\ selectedNoteId' = sel
         /\ PanelCommit(u, ns, sel, panel, inflight)
  /\ pendingEffects' = EffectsAfter(IsSome(queued.user), IsSome(queued.notes))
  /\ queued' = NoUpdates
  /\ UNCHANGED <<currentUser, blobs, clock, nextId, ops, owner>>
  /\ UNCHANGED applied
  /\ UNCHANGED <<storedUsers, authError>>

\* the page is closed or reloaded, or the process dies: memory is lost, the
\* provider calls are abandoned, localStorage stays, and App is mounted again
Restart ==
  /\ ops < MaxOps
  /\ ops' = ops + 1
  /\ user' = "none" /\ notes' = <<>> /\ selectedNoteId' = NullId
  /\ pendingEffects' = <<"session", "load", "persist">>
  /\ queued' = NoUpdates
  /\ panel' = InitialPanel
  /\ inflight' = <<>>
  /\ UNCHANGED <<currentUser, blobs, clock, nextId, owner>>
  /\ applied' = None
  /\ UNCHANGED <<storedUsers, authError>>

(* ------------------------------ App: handlers -------------------------- *)

\* an event is handled once the effects of the last commit have run
CanHandle == Settled /\ ops < MaxOps

\* handleLogin (lines 84-87): the session marker is stored and the user set
onLogin(loggedInUser) ==
  /\ currentUser' = loggedInUser
  /\ user' = loggedInUser
  /\ pendingEffects' = EffectsAfter(TRUE, FALSE)
  /\ PanelCommit(loggedInUser, notes, selectedNoteId, panel, inflight)
  /\ UNCHANGED <<notes, selectedNoteId, queued, blobs, clock, nextId, owner>>

\* handleLogin (lines 84-87), called by Auth for a registered user
handleLogin(loggedInUser) ==
  /\ CanHandle /\ user = "none"
  /\ onLogin(loggedInUser)
  /\ ops' = ops + 1
  /\ applied' = None
  /\ UNCHANGED <<storedUsers, authError>>

(* --------------------------------- Auth -------------------------------- *)

\* as Matches, but the password is not compared
MatchesUsername(users, username, password) ==
  SelectSeqBy(users, [k \in DOMAIN users |-> users[k].username = username])

\* users.find(u => u.username === username && u.password === password)
Matches(users, username, password) ==
  SelectSeqBy(users, [k \in DOMAIN users |->
                       users[k].username = username /\ users[k].password = password])

\* as Taken, but the first record is not looked at
TakenAfterFirst(users, username) ==
  \E k \in DOMAIN users \ {1} : users[k].username = username

\* users.some(u => u.username === username) (line 36)
Taken(users, username) == \E k \in DOMAIN users : users[k].username = username

\* the ids uuidv4() may return for a new user: none that is in use
FreshUserIds(users) == Users \ {users[k].id : k \in DOMAIN users}

\* Auth shows an error and nothing else changes (lines 21, 33, 37)
AuthFails(message) ==
  /\ authError' = message
  /\ UNCHANGED <<user, notes, selectedNoteId, pendingEffects, queued, currentUser,
                 blobs, panel, inflight, clock, nextId, storedUsers, owner>>

\* handleSubmit (part_001 lines 16-50) of the sign-in form (isLogin) or the
\* registration form, with the handleLogin it calls; Auth is unmounted by a
\* login, and a later Auth starts without an error
handleSubmit(isLogin, username, password) ==
  /\ CanHandle /\ user = "none"
  /\ IF Trim(username) = "" \/ Trim(password) = ""
       THEN AuthFails("Please fill in all fields")
       ELSE IF isLogin
              THEN IF Matches(storedUsers, username, password) # <<>>
                     THEN /\ onLogin(Head(Matches(storedUsers, username, password)).id)
                          /\ authError' = ""
                          /\ UNCHANGED storedUsers
                     ELSE AuthFails("Invalid username or password")
              ELSE IF Taken(storedUsers, username)
                     THEN AuthFails("Username already taken")
                     ELSE \E id \in FreshUserIds(storedUsers) :
                            /\ storedUsers' = Append(storedUsers, User(id, username, password))
                            /\ onLogin(id)
                            /\ authError' = ""
  /\ ops' = ops + 1
  /\ applied' = None

\* as handleLogout, but the session marker is left in localStorage
handleLogoutKeepsMarker ==
  /\ CanHandle /\ user # "none"
  /\ user' = "none"
  /\ pendingEffects' = EffectsAfter(TRUE, FALSE)
  /\ PanelCommit("none", notes, selectedNoteId, panel, inflight)
  /\ ops' = ops + 1
  /\ UNCHANGED <<notes, selectedNoteId, queued, currentUser, blobs, clock, nextId, owner>>
  /\ applied' = None
  /\ UNCHANGED <<storedUsers, authError>>

\* handleLogout (lines 89-92)
handleLogout ==
  /\ CanHandle /\ user # "none"
  /\ currentUser' = "none"
  /\ user' = "none"
  /\ pendingEffects' = EffectsAfter(TRUE, FALSE)
  /\ PanelCommit("none", notes, selectedNoteId, panel, inflight)
  /\ ops' = ops + 1
  /\ UNCHANGED <<notes, selectedNoteId, queued, blobs, clock, nextId, owner>>
  /\ applied' = None
  /\ UNCHANGED <<storedUsers, authError>>

\* handleAddNote (lines 94-104); Date.now() is called once for createdAt and
\* once more for updatedAt (lines 98-99), and the clock may tick in between
handleAddNote ==
  /\ CanHandle /\ user # "none"
  /\ \E tick \in {0, 1} :
        LET newNote == Note(nextId, clock, clock + tick)
            newNotes == <<newNote>> \o notes
        IN  /\ notes' = newNotes
            /\ selectedNoteId' = newNote.id
            /\ PanelCommit(user, newNotes, newNote.id, panel, inflight)
            /\ owner' = owner \cup {<<newNote.id, user>>}
  /\ pendingEffects' = EffectsAfter(FALSE, TRUE)
  /\ nextId' = nextId + 1 /\ clock' = clock + 2 /\ ops' = ops + 1
  /\ UNCHANGED <<user, queued, currentUser, blobs>>
  /\ applied' = None
  /\ UNCHANGED <<storedUsers, authError>>

\* handleDeleteNote (lines 110-119), the deletion being confirmed
handleDeleteNote(id) ==
  /\ CanHandle /\ user # "none" /\ HasNote(notes, id)
  /\ LET newNotes == FilterOut(notes, id)
         sel == IF selectedNoteId = id
                  THEN (IF Len(newNotes) > 0 THEN newNotes[1].id ELSE NullId)
                  ELSE selectedNoteId
     IN  /\ notes' = newNotes
         /\ selectedNoteId' = sel
         /\ PanelCommit(user, newNotes, sel, panel, inflight)
  /\ pendingEffects' = EffectsAfter(FALSE, TRUE)
  /\ ops' = ops + 1
  /\ UNCHANGED <<user, queued, currentUser, blobs, clock, nextId, owner>>
  /\ applied' = None
  /\ UNCHANGED <<storedUsers, authError>>

\* Sidebar onSelectNote = setSelectedNoteId, for a note of the list
onSelectNote(id) ==
  /\ CanHandle /\ user # "none" /\ HasNote(notes, id) /\ id # selectedNoteId
  /\ selectedNoteId' = id
  /\ PanelCommit(user, notes, id, panel, inflight)
  /\ ops' = ops + 1
  /\ UNCHANGED <<user, notes, pendingEffects, queued, currentUser, blobs, clock,
                 nextId, owner>>
  /\ applied' = None
  /\ UNCHANGED <<storedUsers, authError>>

\* onUpdateNote(updatedNote) called from a closure whose handleUpdateNote saw
\* closureNotes: the commit of setNotes, with the panel state p and the calls
UpdateCommit(closureNotes, updatedNote, p, calls) ==
  LET newNotes == handleUpdateNote(closureNotes, updatedNote)
  IN  /\ notes' = newNotes
      /\ PanelCommit(user, newNotes, selectedNoteId, p, calls)
      /\ pendingEffects' = EffectsAfter(FALSE, TRUE)
      /\ UNCHANGED <<user, selectedNoteId, queued, currentUser, blobs, owner>>

CanEdit == CanHandle /\ Mounted(user, notes, selectedNoteId)

(* -------------------------------- Editor ------------------------------- *)

\* handleTitleChange (lines 22-24)
handleTitleChange(value) ==
  /\ CanEdit
  /\ UpdateCommit(notes, [selectedNote EXCEPT !.title = value, !.updatedAt = clock],
                  panel, inflight)
  /\ clock' = clock + 1 /\ ops' = ops + 1
  /\ UNCHANGED nextId
  /\ applied' = None
  /\ UNCHANGED <<storedUsers, authError>>

\* handleContentChange (lines 26-28)
handleContentChange(value) ==
  /\ CanEdit
  /\ UpdateCommit(notes, [selectedNote EXCEPT !.content = value, !.updatedAt = clock],
                  panel, inflight)
  /\ clock' = clock + 1 /\ ops' = ops + 1
  /\ UNCHANGED nextId
  /\ applied' = None
  /\ UNCHANGED <<storedUsers, authError>>

(* ---------------------------- AIAnalysisPanel -------------------------- *)

\* an awaited provider call with what its continuation closes over: the note
\* prop and the notes of handleUpdateNote of the render that started it, and
\* for a chat the history sent; live: the panel instance is still mounted
\* request: what the service function sends to the provider
Call(kind, note, history, request) ==
  [kind |-> kind, note |-> note, notes |-> notes, history |-> history,
   request |-> request, live |-> TRUE]

CanCall == Len(inflight) < MaxInFlight

\* what is recorded of a call when its continuation runs
Outcome(call, outcome) == [kind |-> call.kind, id |-> call.note.id, outcome |-> outcome]

\* the study tab shows the analyze button unless isAnalyzing (lines 234-257)
\* handleAnalyze up to the await (lines 35-44)
handleAnalyze ==
  /\ CanEdit /\ ~panel.isAnalyzing
  /\ IF Trim(selectedNote.content) = ""
       THEN /\ panel' = [panel EXCEPT !.error = "Please add some content to the note first."]
            /\ inflight' = inflight
       ELSE /\ CanCall
            /\ panel' = [panel EXCEPT !.isAnalyzing = TRUE, !.error = "none"]
            /\ inflight' = Append(inflight, Call("analyze", selectedNote, <<>>,
                                                analyzeRequest(selectedNote.content)))
  /\ ops' = ops + 1
  /\ UNCHANGED <<user, notes, selectedNoteId, pendingEffects, queued, currentUser,
                 blobs, clock, nextId, owner>>
  /\ applied' = None
  /\ UNCHANGED <<storedUsers, authError>>

\* the flags a continuation resets in its finally block, if its panel is mounted
Finally(call, p) == IF call.live THEN p ELSE panel

\* a continuation that would drop the result of a call whose panel is gone
AnalyzeResolvedFenced(i, analysisData) ==
  /\ Settled /\ i \in DOMAIN inflight /\ inflight[i].kind = "analyze"
  /\ IF inflight[i].live
       THEN /\ UpdateCommit(inflight[i].notes,
                            AnalyzedNote(inflight[i].note, analysisData, nextId, clock),
                            [panel EXCEPT !.isAnalyzing = FALSE],
                            RemoveAt(inflight, i))
            /\ nextId' = nextId + Len(analysisData.questions)
            /\ clock' = clock + 1
       ELSE /\ inflight' = RemoveAt(inflight, i)
            /\ UNCHANGED <<user, notes, selectedNoteId, pendingEffects, queued,
                           currentUser, blobs, panel, clock, nextId, owner>>
  /\ UNCHANGED ops
  /\ applied' = Some(Outcome(inflight[i], "resolved"))
  /\ UNCHANGED <<storedUsers, authError>>

\* handleAnalyze after the await resolved (lines 44-60, 63-65)
AnalyzeResolved(i, analysisData) ==
  /\ Settled /\ i \in DOMAIN inflight /\ inflight[i].kind = "analyze"
  /\ UpdateCommit(inflight[i].notes,
                  AnalyzedNote(inflight[i].note, analysisData, nextId, clock),
                  Finally(inflight[i], [panel EXCEPT !.isAnalyzing = FALSE]),
                  RemoveAt(inflight, i))
  /\ nextId' = nextId + Len(analysisData.questions)
  /\ clock' = clock + 1
  /\ UNCHANGED ops
  /\ applied' = Some(Outcome(inflight[i], "resolved"))
  /\ UNCHANGED <<storedUsers, authError>>

\* handleAnalyze after the await rejected (lines 61-65)
AnalyzeRejected(i) ==
  /\ Settled /\ i \in DOMAIN inflight /\ inflight[i].kind = "analyze"
  /\ panel' = Finally(inflight[i],
                      [panel EXCEPT !.isAnalyzing = FALSE,
                                    !.error = "Failed to generate analysis. Please try again."])
  /\ inflight' = RemoveAt(inflight, i)
  /\ UNCHANGED <<user, notes, selectedNoteId, pendingEffects, queued, currentUser,
                 blobs, clock, nextId, ops, owner>>
  /\ applied' = Some(Outcome(inflight[i], "rejected"))
  /\ UNCHANGED <<storedUsers, authError>>

\* the questions are shown when the note has an analysis and the panel is not
\* analyzing (line 257)
QuizShown == CanEdit /\ IsSome(selectedNote.analysis) /\ ~panel.isAnalyzing

\* handleAnswerChange (lines 68-82), for a question of the list
handleAnswerChange(questionId, answer) ==
  /\ QuizShown
  /\ \E k \in DOMAIN Val(selectedNote.analysis).questions :
        Val(selectedNote.analysis).questions[k].id = questionId
  /\ UpdateCommit(notes, AnswerChangedNote(selectedNote, questionId, answer),
                  panel, inflight)
  /\ ops' = ops + 1
  /\ UNCHANGED <<clock, nextId>>
  /\ applied' = None
  /\ UNCHANGED <<storedUsers, authError>>

\* handleCheckAnswers up to the await (lines 84-102); the button is disabled
\* while isChecking (line 340)
handleCheckAnswers ==
  /\ QuizShown /\ ~panel.isChecking
  /\ Len(Val(selectedNote.analysis).questions) > 0
  /\ IF Len(itemsToGrade(selectedNote)) = 0
       THEN /\ panel' = [panel EXCEPT
                           !.error = "Please answer at least one question before checking."]
            /\ inflight' = inflight
       ELSE /\ CanCall
            /\ panel' = [panel EXCEPT !.isChecking = TRUE, !.error = "none"]
            /\ inflight' = Append(inflight, Call("check", selectedNote, <<>>,
                                                evaluateRequest(itemsToGrade(selectedNote))))
  /\ ops' = ops + 1
  /\ UNCHANGED <<user, notes, selectedNoteId, pendingEffects, queued, currentUser,
                 blobs, clock, nextId, owner>>
  /\ applied' = None
  /\ UNCHANGED <<storedUsers, authError>>

\* handleCheckAnswers after the await resolved (lines 102-118, 121-123)
CheckResolved(i, evaluations) ==
  /\ Settled /\ i \in DOMAIN inflight /\ inflight[i].kind = "check"
  /\ UpdateCommit(inflight[i].notes,
                  EvaluatedNote(inflight[i].note, evaluations),
                  Finally(inflight[i], [panel EXCEPT !.isChecking = FALSE]),
                  RemoveAt(inflight, i))
  /\ UNCHANGED <<clock, nextId, ops>>
  /\ applied' = Some(Outcome(inflight[i], "resolved"))
  /\ UNCHANGED <<storedUsers, authError>>

\* handleCheckAnswers after the await rejected (lines 119-123)
CheckRejected(i) ==
  /\ Settled /\ i \in DOMAIN inflight /\ inflight[i].kind = "check"
  /\ panel' = Finally(inflight[i],
                      [panel EXCEPT !.isChecking = FALSE,
                                    !.error = "Failed to check answers. Please try again."])
  /\ inflight' = RemoveAt(inflight, i)
  /\ UNCHANGED <<user, notes, selectedNoteId, pendingEffects, queued, currentUser,
                 blobs, clock, nextId, ops, owner>>
  /\ applied' = Some(Outcome(inflight[i], "rejected"))
  /\ UNCHANGED <<storedUsers, authError>>

\* handleSendMessage up to the await (lines 126-148), entered from the send
\* button, which is disabled while isChatting (lines 459-461), or from the Enter
\* key, whose handleKeyDown tests no flag (lines 179-184)
handleSendMessage(chatInput) ==
  /\ CanEdit /\ CanCall
  /\ ~(Trim(chatInput) = "" \/ Falsy(selectedNote.content))
  /\ LET newUserMsg == ChatMessage(nextId, "user", chatInput, "absent", clock)
         history == updatedHistory(selectedNote, newUserMsg)
     IN  UpdateCommit(notes, WithHistory(selectedNote, history),
                      [panel EXCEPT !.isChatting = TRUE],
                      Append(inflight, Call("chat", selectedNote, history,
                                          queryRequest(selectedNote.content, history, chatInput))))
  /\ nextId' = nextId + 1 /\ clock' = clock + 1 /\ ops' = ops + 1
  /\ applied' = None
  /\ UNCHANGED <<storedUsers, authError>>

\* the reply appended to the transcript the closure has without the message sent
RepliedNotePreAppend(call, newAiMsg) ==
  WithHistory(call.note,
              (IF IsSome(call.note.chatHistory) THEN Val(call.note.chatHistory) ELSE <<>>)
                \o <<newAiMsg>>)

\* lines 158-161: {...note, chatHistory: [...updatedHistory, newAiMsg]}
RepliedNote(call, newAiMsg) == WithHistory(call.note, call.history \o <<newAiMsg>>)

\* lines 150-156: the model message built from what queryNote returned
newAiMsgOf(responseData) ==
  ChatMessage(nextId, "model", responseData.text, responseData.attachment, clock)

\* handleSendMessage after queryNote resolved (lines 148-161, 174-176)
ChatResolved(i, responseData) ==
  /\ Settled /\ i \in DOMAIN inflight /\ inflight[i].kind = "chat"
  /\ LET newAiMsg == newAiMsgOf(responseData)
     IN  UpdateCommit(inflight[i].notes,
                      RepliedNote(inflight[i], newAiMsg),
                      Finally(inflight[i], [panel EXCEPT !.isChatting = FALSE]),
                      RemoveAt(inflight, i))
  /\ nextId' = nextId + 1 /\ clock' = clock + 1
  /\ UNCHANGED ops
  /\ applied' = Some(Outcome(inflight[i], IF responseData.text = FallbackText THEN "failed" ELSE "resolved"))
  /\ UNCHANGED <<storedUsers, authError>>

(* --------------------------- Editor, image import ---------------------- *)

\* the types of the files chosen in the file dialog
FileTypes == {"application/pdf", "image/png"}
IsImageType(type) == type = "image/png"

\* what extractTextFromImage resolves with: response.text || "" (line 34)
ExtractedTexts == {"", "ocr"}

\* extractTextFromImage, the request (lines 15-32)
extractRequest(mimeType) == [mimeType |-> mimeType]

\* handleImageUpload up to reader.readAsDataURL (lines 30-42, 64); the upload
\* button is disabled while isProcessingImage (lines 71-75, 117)
handleImageUpload(type) ==
  /\ CanEdit /\ ~panel.isProcessingImage
  /\ IF ~IsImageType(type)
       THEN /\ panel' = [panel EXCEPT !.alert = "Please upload a valid image file."]
            /\ inflight' = inflight
       ELSE /\ CanCall
            /\ panel' = [panel EXCEPT !.isProcessingImage = TRUE]
            /\ inflight' = Append(inflight, Call("ocr", selectedNote, <<>>,
                                                extractRequest(type)))
  /\ ops' = ops + 1
  /\ UNCHANGED <<user, notes, selectedNoteId, pendingEffects, queued, currentUser,
                 blobs, clock, nextId, owner>>
  /\ applied' = None
  /\ UNCHANGED <<storedUsers, authError>>

\* the content after an import (lines 51-53)
importedContent(note, extractedText) ==
  IF ~Falsy(note.content)
    THEN note.content \o "\n\n--- Extracted from Image ---\n" \o extractedText
    ELSE extractedText

\* reader.onloadend with the file read and the extraction resolved
\* (lines 43-55, 58-62)
OcrResolved(i, extractedText) ==
  /\ Settled /\ i \in DOMAIN inflight /\ inflight[i].kind = "ocr"
  /\ UpdateCommit(inflight[i].notes,
                  [inflight[i].note EXCEPT
                     !.content = importedContent(inflight[i].note, extractedText),
                     !.updatedAt = clock],
                  Finally(inflight[i], [panel EXCEPT !.isProcessingImage = FALSE]),
                  RemoveAt(inflight, i))
  /\ clock' = clock + 1
  /\ UNCHANGED <<nextId, ops>>
  /\ applied' = Some(Outcome(inflight[i], "resolved"))
  /\ UNCHANGED <<storedUsers, authError>>

\* the alert of the catch block (line 57); window.alert needs no mounted Editor
Alerted(p) == [p EXCEPT !.alert = "Failed to extract text from image. Please try again."]

\* as OcrRejected, but the catch block imports an empty text
OcrRejectedImports(i) ==
  /\ Settled /\ i \in DOMAIN inflight /\ inflight[i].kind = "ocr"
  /\ UpdateCommit(inflight[i].notes,
                  [inflight[i].note EXCEPT
                     !.content = importedContent(inflight[i].note, ""),
                     !.updatedAt = clock],
                  Alerted(Finally(inflight[i], [panel EXCEPT !.isProcessingImage = FALSE])),
                  RemoveAt(inflight, i))
  /\ UNCHANGED <<clock, nextId, ops>>
  /\ applied' = Some(Outcome(inflight[i], "rejected"))
  /\ UNCHANGED <<storedUsers, authError>>

\* reader.onloadend with the file read and the extraction rejected
\* (lines 43-49, 56-62)
OcrRejected(i) ==
  /\ Settled /\ i \in DOMAIN inflight /\ inflight[i].kind = "ocr"
  /\ panel' = Alerted(Finally(inflight[i], [panel EXCEPT !.isProcessingImage = FALSE]))
  /\ inflight' = RemoveAt(inflight, i)
  /\ UNCHANGED <<user, notes, selectedNoteId, pendingEffects, queued, currentUser,
                 blobs, clock, nextId, ops, owner>>
  /\ applied' = Some(Outcome(inflight[i], "rejected"))
  /\ UNCHANGED <<storedUsers, authError>>

\* reader.onloadend with the file not read: reader.result is null and split
\* throws outside the try block (lines 43-47), so no state is set
ReadFailed(i) ==
  /\ Settled /\ i \in DOMAIN inflight /\ inflight[i].kind = "ocr"
  /\ inflight' = RemoveAt(inflight, i)
  /\ UNCHANGED <<user, notes, selectedNoteId, pendingEffects, queued, currentUser,
                 blobs, panel, clock, nextId, ops, owner>>
  /\ applied' = Some(Outcome(inflight[i], "unread"))
  /\ UNCHANGED <<storedUsers, authError>>

(* ------------------------------ specification -------------------------- *)

Next ==
  \/ SessionEffect
  \/ LoadEffect
  \/ PersistEffect
  \/ Render
  \/ Restart
  \/ \E u \in Users : handleLogin(u)
  \/ handleLogout
  \/ handleAddNote
  \/ \E n \in Range(notes) : handleDeleteNote(n.id)
  \/ \E n \in Range(notes) : onSelectNote(n.id)
  \/ \E v \in Titles : handleTitleChange(v)
  \/ \E v \in Contents : handleContentChange(v)
  \/ handleAnalyze
  \/ \E i \in 1..MaxInFlight, d \in AnalysisResponses : AnalyzeResolved(i, d)
  \/ \E i \in 1..MaxInFlight : AnalyzeRejected(i)
  \/ \E q \in 1..nextId, a \in Answers : handleAnswerChange(q, a)
  \/ handleCheckAnswers
  \/ \E i \in DOMAIN inflight :
        \E e \in (IF inflight[i].kind = "check"
                    THEN EvaluationResponses(inflight[i].note) ELSE {}) :
           CheckResolved(i, e)
  \/ \E i \in 1..MaxInFlight : CheckRejected(i)
  \/ \E t \in ChatInputs : handleSendMessage(t)
  \/ \E i \in 1..MaxInFlight, r \in queryNoteResults : ChatResolved(i, r)

Spec == Init /\ [][Next]_vars

\* the app after the session of the first user was resumed and the stored
\* collection ns was loaded, committed and persisted (effects 1-3, lines 18-80)
SessionWith(ns, calls) ==
  /\ user = "u1" /\ currentUser = "u1"
  /\ notes = ns
  /\ selectedNoteId = IF Len(ns) > 0 THEN ns[1].id ELSE NullId
  /\ pendingEffects = <<>> /\ queued = NoUpdates
  /\ blobs = [u \in Users |-> IF u = "u1" THEN JsonBlob(JSONstringify(ns))
                                           ELSE JsonBlob(<<StoredOther>>)]
  /\ panel = InitialPanel /\ inflight = calls
  /\ storedUsers = RegisteredUsers /\ authError = ""
  /\ clock = 4 /\ nextId = 10 /\ ops = 0
  /\ owner = {<<ns[k].id, "u1">> : k \in DOMAIN ns} \cup {<<7, "u2">>}
  /\ applied = None

SessionOf(ns) == SessionWith(ns, <<>>)

(* ------------------------- the load, in depth -------------------------- *)

\* stored notes of the forms the load distinguishes: legacy questions (one,
\* two), an empty question list, no analysis, questions in QuizItem form
LegacyOne ==
  [id |-> 8, title |-> "T", content |-> "c1", createdAt |-> 1, updatedAt |-> 2,
   analysis |-> Some([summary |-> <<"s2">>, questions |-> <<LegacyQuestion("q2")>>]),
   chatHistory |-> None]
LegacyTwo == [StoredLegacy EXCEPT !.id = 9]
EmptyQuiz ==
  [id |-> 11, title |-> "T", content |-> "c1", createdAt |-> 1, updatedAt |-> 2,
   analysis |-> Some([summary |-> <<"s1">>, questions |-> <<>>]),
   chatHistory |-> None]
LoadNotes == {LegacyOne, LegacyTwo, EmptyQuiz, StoredOlder, StoredNewest}

\* what may be stored under the key of the first user: nothing, a text that
\* does not parse, or a collection of up to two of these notes
LoadBlobs ==
  {AbsentBlob, CorruptBlob, JsonBlob(<<>>)}
    \cup {JsonBlob(<<a>>) : a \in LoadNotes}
    \cup {JsonBlob(<<p[1], p[2]>>) : p \in {x \in LoadNotes \X LoadNotes : x[1] # x[2]}}

\* App is mounted with the session of the first user stored
InitLoad ==
  /\ Mount
  /\ storedUsers = RegisteredUsers
  /\ currentUser = "u1"
  /\ \E b \in LoadBlobs :
        blobs = [u \in Users |-> IF u = "u1" THEN b ELSE JsonBlob(<<StoredOther>>)]
  /\ clock = 4
  /\ nextId = 20
  /\ ops = 0
  /\ owner = {<<n.id, "u1">> : n \in LoadNotes} \cup {<<7, "u2">>}
  /\ applied = None

NextLoad ==
  \/ SessionEffect
  \/ LoadEffect
  \/ PersistEffect
  \/ Render
  \/ Restart

SpecLoad == InitLoad /\ [][NextLoad]_vars

(* ----------------------- signing in and registering ------------------- *)

Usernames == {" ", "alice", "Alice"}
Passwords == {"", "pw1", "pw2"}

\* the stores handleSubmit can have written: no user yet, or the first ones
AuthStores == {<<>>, <<User("u1", "alice", "pw1")>>, RegisteredUsers}

\* App is mounted; the notes and the session of registered users are stored
InitAuth ==
  /\ Mount
  /\ storedUsers \in AuthStores
  /\ currentUser \in {"none"} \cup {storedUsers[k].id : k \in DOMAIN storedUsers}
  /\ blobs = [u \in Users |->
                IF u \in FreshUserIds(storedUsers) THEN AbsentBlob
                ELSE IF u = "u1" THEN JsonBlob(<<StoredNewest, StoredOlder>>)
                ELSE JsonBlob(<<StoredOther>>)]
  /\ clock = 4
  /\ nextId = 10
  /\ ops = 0
  /\ owner = {<<1, "u1">>, <<6, "u1">>, <<7, "u2">>}
  /\ applied = None

NextAuth ==
  \/ SessionEffect
  \/ LoadEffect
  \/ PersistEffect
  \/ Render
  \/ Restart
  \/ \E isLogin \in BOOLEAN, username \in Usernames, password \in Passwords :
        handleSubmit(isLogin, username, password)
  \/ handleLogout
  \/ handleAddNote

SpecAuth == InitAuth /\ [][NextAuth]_vars

(* ----------------------- every way of writing a note ------------------- *)

\* App is mounted with the session of the first user stored and a collection
\* written by an older or by this version
InitEditor ==
  /\ Mount
  /\ storedUsers = RegisteredUsers
  /\ currentUser = "u1"
  /\ \E b \in {JsonBlob(<<StoredLegacy>>), JsonBlob(<<StoredNewest, StoredOlder>>)} :
        blobs = [u \in Users |-> IF u = "u1" THEN b ELSE JsonBlob(<<StoredOther>>)]
  /\ clock = 4
  /\ nextId = 10
  /\ ops = 0
  /\ owner = {<<1, "u1">>, <<6, "u1">>, <<7, "u2">>}
  /\ applied = None

NextEditor ==
  \/ SessionEffect
  \/ LoadEffect
  \/ PersistEffect
  \/ Render
  \/ \E v \in Titles : handleTitleChange(v)
  \/ \E v \in Contents : handleContentChange(v)
  \/ \E type \in FileTypes : handleImageUpload(type)
  \/ \E i \in 1..MaxInFlight, t \in ExtractedTexts : OcrResolved(i, t)
  \/ \E i \in 1..MaxInFlight : OcrRejected(i)
  \/ \E i \in 1..MaxInFlight : ReadFailed(i)
  \/ handleAnalyze
  \/ \E i \in 1..MaxInFlight, d \in AnalysisResponses : AnalyzeResolved(i, d)
  \/ \E i \in 1..MaxInFlight : AnalyzeRejected(i)
  \/ \E q \in 1..nextId, a \in Answers : handleAnswerChange(q, a)
  \/ handleCheckAnswers
  \/ \E i \in DOMAIN inflight :
        \E e \in (IF inflight[i].kind = "check"
                    THEN EvaluationResponses(inflight[i].note) ELSE {}) :
           CheckResolved(i, e)
  \/ \E i \in 1..MaxInFlight : CheckRejected(i)
  \/ \E t \in ChatInputs : handleSendMessage(t)
  \/ \E i \in 1..MaxInFlight, r \in queryNoteResults : ChatResolved(i, r)

SpecEditor == InitEditor /\ [][NextEditor]_vars

\* React runs the effects of a commit and renders the queued updates
EffectsRun == SessionEffect \/ LoadEffect \/ PersistEffect \/ Render

\* the provider resolves or rejects the call at position i, and the
\* continuation of its handler runs
ProviderSettles(i) ==
  \/ \E t \in ExtractedTexts : OcrResolved(i, t)
  \/ OcrRejected(i)
  \/ \E d \in AnalysisResponses : AnalyzeResolved(i, d)
  \/ AnalyzeRejected(i)
  \/ \E e \in (IF i \in DOMAIN inflight /\ inflight[i].kind = "check"
                  THEN EvaluationResponses(inflight[i].note) ELSE {}) :
         CheckResolved(i, e)
  \/ CheckRejected(i)
  \/ \E r \in queryNoteResults : ChatResolved(i, r)

\* the editor and the panel with a scheduler that runs pending effects and a
\* provider that answers every call
SpecEditorFair ==
  /\ SpecEditor
  /\ WF_vars(EffectsRun)
  /\ \A i \in 1..MaxInFlight : WF_vars(ProviderSettles(i))

(* ----------------------- the analysis of one note, in depth ------------ *)

\* the texts typed into the editor: nothing, white space, a text
EditorContents == {"", " ", "c2"}

\* the stored notes with one of these contents, analyzed before or not
AnalyzeNotes ==
  { [n EXCEPT !.content = c] : n \in {StoredNewest, StoredOlder}, c \in EditorContents }

\* an analysis of the note that was started while its content was "c2" and is
\* still in flight after the user logged out and in again: the call of a panel
\* that is no longer mounted
AbandonedAnalysis(n) ==
  LET snapshot == [n EXCEPT !.content = "c2"]
  IN  [kind |-> "analyze", note |-> snapshot, notes |-> <<snapshot>>, history |-> <<>>,
       request |-> analyzeRequest(snapshot.content), live |-> FALSE]

InitAnalyze ==
  \E n \in AnalyzeNotes : \E calls \in {<<>>, <<AbandonedAnalysis(n)>>} :
    SessionWith(<<n>>, calls)

NextAnalyze ==
  \/ \E v \in EditorContents : handleContentChange(v)
  \/ handleAnalyze
  \/ \E i \in 1..MaxInFlight, d \in AnalysisResponses : AnalyzeResolved(i, d)
  \/ \E i \in 1..MaxInFlight : AnalyzeRejected(i)
  \/ PersistEffect

SpecAnalyze == InitAnalyze /\ [][NextAnalyze]_vars

(* ----------------------- the chat of one note, in depth ---------------- *)

\* the texts typed into the chat box: nothing, white space, a question
ChatTexts == {"", " ", "hi"}

InitChat == \E n \in AnalyzeNotes : SessionOf(<<n>>)

NextChat ==
  \/ \E v \in EditorContents : handleContentChange(v)
  \/ \E t \in ChatTexts : handleSendMessage(t)
  \/ \E i \in 1..MaxInFlight, r \in queryNoteResults : ChatResolved(i, r)
  \/ PersistEffect

SpecChat == InitChat /\ [][NextChat]_vars

(* ----------------------- the quiz of one note, in depth ---------------- *)

\* the texts typed into an answer box: nothing, white space, an answer
QuizAnswers == {"", " ", "ans"}

\* a stored item: ungraded, or graded by an earlier evaluation
StoredItems(id, question) ==
  { [id |-> id, question |-> question, userAnswer |-> a,
     isCorrect |-> g[1], feedback |-> g[2]] :
      a \in QuizAnswers, g \in {<<"absent", "absent">>, <<"true", "fb">>} }

\* the stored notes with a quiz of two questions
QuizNotes ==
  { [StoredNewest EXCEPT !.analysis = Some([summary |-> <<"s1">>, questions |-> <<q1, q2>>]),
                         !.chatHistory = None] :
      q1 \in StoredItems(2, "q1"), q2 \in StoredItems(3, "q2") }

InitQuiz == \E n \in QuizNotes : SessionOf(<<n>>)

\* what the evaluation provider may return for a note (lines 139-166): up to
\* two entries, for questions of the note or for an id the note does not have,
\* possibly two for the same question
EvaluationEntries(note) ==
  { [questionId |-> id, isCorrect |-> v[1], feedback |-> v[2]] :
      id \in {q.id : q \in Range(Val(note.analysis).questions)} \cup {99},
      v \in {<<"true", "fb">>, <<"false", "fb2">>} }
AnyEvaluations(note) ==
  {<<>>} \cup {<<a>> : a \in EvaluationEntries(note)}
         \cup {<<a, b>> : a \in EvaluationEntries(note), b \in EvaluationEntries(note)}

NextQuiz ==
  \/ \E q \in {2, 3}, a \in QuizAnswers : handleAnswerChange(q, a)
  \/ handleCheckAnswers
  \/ \E i \in DOMAIN inflight :
        \E e \in (IF inflight[i].kind = "check"
                    THEN AnyEvaluations(inflight[i].note) ELSE {}) :
           CheckResolved(i, e)
  \/ \E i \in 1..MaxInFlight : CheckRejected(i)
  \/ PersistEffect

SpecQuiz == InitQuiz /\ [][NextQuiz]_vars

(* ================================ claims =============================== *)

\* the value a read of an optional property gives (line 286 tests
\* item.isCorrect !== undefined): a missing property reads as undefined
Read(v) == IF v = "absent" THEN "undefined" ELSE v

History(note) == IF IsSome(note.chatHistory) THEN Val(note.chatHistory) ELSE <<>>
IsPrefix(s, t) == Len(s) <= Len(t) /\ SubSeq(t, 1, Len(s)) = s

\* the step is the continuation of call i with an analysis or evaluation result
ResultApplied(i) ==
  \/ \E d \in AnalysisResponses : AnalyzeResolved(i, d)
  \/ /\ inflight[i].kind = "check"
     /\ \E e \in EvaluationResponses(inflight[i].note) : CheckResolved(i, e)

\* the step is the continuation of chat call i
ReplyAppended(i) == \E r \in queryNoteResults : ChatResolved(i, r)

\* C1: applying an analysis or evaluation result to a note leaves the title
\* and the content the note has at that moment as they are (an edit made
\* while the call was in flight is not reverted).
C1_EditsSurviveResult ==
  [][\A i \in DOMAIN inflight :
       (ResultApplied(i) /\ HasNote(notes, inflight[i].note.id))
         => /\ HasNote(notes', inflight[i].note.id)
            /\ FindNote(notes', inflight[i].note.id).title
                 = FindNote(notes, inflight[i].note.id).title
            /\ FindNote(notes', inflight[i].note.id).content
                 = FindNote(notes, inflight[i].note.id).content]_vars

\* C2: appending the reply (or the failure message) of a chat query changes
\* only chatHistory of the note's current value: every other field is what it
\* was just before the reply arrived.
C2_ReplyChangesOnlyChatHistory ==
  [][\A i \in DOMAIN inflight :
       (ReplyAppended(i) /\ HasNote(notes, inflight[i].note.id))
         => /\ HasNote(notes', inflight[i].note.id)
            /\ [FindNote(notes', inflight[i].note.id) EXCEPT !.chatHistory = None]
                 = [FindNote(notes, inflight[i].note.id) EXCEPT !.chatHistory = None]]_vars

\* C3: in every step the chatHistory a note had is a prefix of the chatHistory
\* it has afterwards.
C3_ChatHistoryAppendOnly ==
  [][\A k \in DOMAIN notes :
       HasNote(notes', notes[k].id)
         => IsPrefix(History(notes[k]), History(FindNote(notes', notes[k].id)))]_vars

\* what queryNote returns when the provider call fails
FailedQuery == [text |-> FallbackText, attachment |-> "undefined"]

\* C4: when the reply of a failed chat query is handled, the transcript of the
\* note is the transcript it had when the message was sent, followed by the
\* user's message and by a model message with the fixed apology text; the
\* continuation sets no error message.
C4_FailedChatAppendsTwo ==
  [][\A i \in DOMAIN inflight :
       ChatResolved(i, FailedQuery)
         => LET id == inflight[i].note.id
                before == History(inflight[i].note)
                after == History(FindNote(notes', id))
                sent == inflight[i].history[Len(inflight[i].history)]
            IN  /\ HasNote(notes', id)
                /\ Len(after) = Len(before) + 2
                /\ IsPrefix(before, after)
                /\ after[Len(before) + 1] = sent
                /\ sent.role = "user"
                /\ after[Len(before) + 2].role = "model"
                /\ after[Len(before) + 2].content = FallbackText
                /\ panel'.error \in {panel.error, InitialPanel.error}]_vars

\* C4 witness: the continuation of a failed chat query has just run and the
\* transcript of its note ends with the user's message and the apology
C4_Witness ==
  /\ IsSome(applied) /\ Val(applied).kind = "chat" /\ Val(applied).outcome = "failed"
  /\ HasNote(notes, Val(applied).id)
  /\ LET h == History(FindNote(notes, Val(applied).id))
     IN  /\ Len(h) >= 2
         /\ h[Len(h) - 1].role = "user"
         /\ h[Len(h)].content = FallbackText

\* the note a continuation passes to onUpdateNote, per kind of call
AnalysisApplied(i) ==
  \E d \in AnalysisResponses :
     /\ AnalyzeResolved(i, d)
     /\ FindNote(notes', inflight[i].note.id) = AnalyzedNote(inflight[i].note, d, nextId, clock)
EvaluationApplied(i) ==
  /\ inflight[i].kind = "check"
  /\ \E e \in EvaluationResponses(inflight[i].note) :
        /\ CheckResolved(i, e)
        /\ FindNote(notes', inflight[i].note.id) = EvaluatedNote(inflight[i].note, e)
ReplyApplied(i) ==
  \E r \in queryNoteResults :
     /\ ChatResolved(i, r)
     /\ FindNote(notes', inflight[i].note.id) = RepliedNote(inflight[i], newAiMsgOf(r))

\* C5: a result is applied to the note whose id issued the request, whatever
\* is selected when it arrives; the selected note, when it is another note of
\* the collection the handler works on, stays in the collection and does not
\* receive the result.
C5_ResultGoesToItsNote ==
  [][\A i \in DOMAIN inflight :
       (ResultApplied(i) \/ ReplyAppended(i))
         => LET id == inflight[i].note.id
                result == FindNote(notes', id)
            IN  /\ HasNote(notes', id)
                /\ AnalysisApplied(i) \/ EvaluationApplied(i) \/ ReplyApplied(i)
                /\ (selectedNoteId # id /\ HasNote(inflight[i].notes, selectedNoteId))
                     => /\ HasNote(notes', selectedNoteId)
                        /\ inflight[i].kind = "chat"
                             => FindNote(notes', selectedNoteId).chatHistory
                                  # result.chatHistory
                        /\ inflight[i].kind # "chat"
                             => FindNote(notes', selectedNoteId).analysis
                                  # result.analysis]_vars

\* C5 witness: a result has just been applied to a note while another note
\* of the collection is selected
C5_Witness ==
  /\ IsSome(applied) /\ Val(applied).outcome = "resolved"
  /\ pendingEffects = <<"persist">>
  /\ Val(applied).id # selectedNoteId
  /\ HasNote(notes, Val(applied).id)
  /\ HasNote(notes, selectedNoteId)

BelongsTo(note, u) == <<note.id, u>> \in owner

\* C6: the collection in memory while a user is active, and the blob stored
\* under each user's key, hold only notes created by that user.
C6_NoSharingAcrossUsers ==
  /\ user # "none" => \A k \in DOMAIN notes : BelongsTo(notes[k], user)
  /\ \A u \in Users : \A k \in DOMAIN blobs[u].notes : BelongsTo(blobs[u].notes[k], u)

\* the field values of a stored or in-memory object as a reader sees them
ReadQuestion(q) ==
  IF IsString(q) THEN q
  ELSE [q EXCEPT !.isCorrect = Read(@), !.feedback = Read(@)]
ReadNote(n) ==
  [n EXCEPT
     !.analysis = IF IsSome(@)
                    THEN Some([Val(@) EXCEPT !.questions =
                                 [i \in DOMAIN @ |-> ReadQuestion(@[i])]])
                    ELSE None,
     !.chatHistory = IF IsSome(@)
                       THEN Some([i \in DOMAIN Val(@) |->
                                    [Val(@)[i] EXCEPT !.attachment = Read(@)]])
                       ELSE None]
ReadNotes(ns) == [i \in DOMAIN ns |-> ReadNote(ns[i])]

\* C7: when a user is logged in and every effect of the last operation has
\* run, the blob under the user's key is the in-memory collection: the same
\* notes in the same order with the same field values.
C7_BlobEqualsMemory ==
  (Settled /\ user # "none")
    => /\ blobs[user].kind = "json"
       /\ ReadNotes(blobs[user].notes) = ReadNotes(notes)

\* C7 witness: a settled state of a logged-in user whose collection was
\* changed in this session and is stored as it is
C7_Witness ==
  /\ Settled /\ user # "none" /\ ops > 0
  /\ \E k \in DOMAIN notes : notes[k].updatedAt >= 4
  /\ ReadNotes(blobs[user].notes) = ReadNotes(notes)

NoteIds(ns) == { ns[k].id : k \in DOMAIN ns }

\* the user is active and the load of the user's notes has not been committed
Loading ==
  /\ user # "none"
  /\ \/ \E k \in DOMAIN pendingEffects : pendingEffects[k] = "load"
     \/ IsSome(queued.notes)

\* C8: from the moment a user becomes active until the load has finished no
\* step replaces the blob under the user's key by a collection that lacks a
\* note stored there before.
C8_LoginKeepsStoredNotes ==
  [][Loading => NoteIds(blobs[user].notes) \subseteq NoteIds(blobs'[user].notes)]_vars

GradeAbsent(q) == Read(q.isCorrect) = "undefined" /\ Read(q.feedback) = "undefined"
GradePresent(q) == Read(q.isCorrect) # "undefined" /\ Read(q.feedback) # "undefined"

\* C9: handleAnswerChange for a question of the selected note leaves that item
\* with the new text as userAnswer and with isCorrect and feedback both absent.
C9_SetAnswerClearsGrade ==
  [][\A questionId \in 1..nextId, answer \in Answers :
       handleAnswerChange(questionId, answer)
         => LET qs == Val(FindNote(notes', selectedNoteId).analysis).questions
            IN  \E k \in DOMAIN qs :
                   /\ qs[k].id = questionId
                   /\ qs[k].userAnswer = answer
                   /\ GradeAbsent(qs[k])]_vars

\* C9 witness: the stored item that was graded has had its answer changed and
\* is ungraded
C9_Witness ==
  \E k \in DOMAIN notes :
     /\ IsSome(notes[k].analysis)
     /\ \E j \in DOMAIN Val(notes[k].analysis).questions :
           LET q == Val(notes[k].analysis).questions[j]
           IN  q.id = 2 /\ q.isCorrect = "undefined" /\ q.feedback = "undefined"

\* every collection of the state: in memory, queued, stored, closed over
Collections ==
  {notes} \cup {blobs[u].notes : u \in Users}
          \cup (IF IsSome(queued.notes) THEN {Val(queued.notes)} ELSE {})
          \cup {inflight[i].notes : i \in DOMAIN inflight}
          \cup {<<inflight[i].note>> : i \in DOMAIN inflight}

QuizItemsOf(note) ==
  IF IsSome(note.analysis)
    THEN { q \in Range(Val(note.analysis).questions) : ~IsString(q) }
    ELSE {}

\* C10: every QuizItem of every note has isCorrect and feedback both present
\* or both absent.
C10_GradeFieldsTogether ==
  \A ns \in Collections : \A k \in DOMAIN ns : \A q \in QuizItemsOf(ns[k]) :
     GradeAbsent(q) \/ GradePresent(q)

\* C10 witness: an item graded in this session (its grade comes from an
\* evaluation result applied, the stored one being correct) 
C10_Witness ==
  /\ IsSome(applied) /\ Val(applied).kind = "check" /\ Val(applied).outcome = "resolved"
  /\ \E k \in DOMAIN notes : \E q \in QuizItemsOf(notes[k]) :
        q.isCorrect = "false" /\ q.feedback = "fb"

\* the step is the continuation of check call i with the evaluations e
Graded(i, e) == inflight[i].kind = "check" /\ CheckResolved(i, e)

\* C11: applying an evaluation result to a note sets isCorrect and feedback,
\* both from one entry of the result, on every item whose id is a questionId
\* of the result, and leaves every other item of the note, and every other
\* field of the note, as they are when the result is applied.
C11_EvaluationSetsMatchedOnly ==
  [][\A i \in DOMAIN inflight :
       \A e \in (IF inflight[i].kind = "check" /\ Len(inflight') < Len(inflight)
                   THEN AnyEvaluations(inflight[i].note) ELSE {}) :
         Graded(i, e)
           => LET given == FindNote(notes, inflight[i].note.id)
                  result == FindNote(notes', given.id)
                  before == Val(given.analysis).questions
                  after == Val(result.analysis).questions
              IN  /\ [result EXCEPT !.analysis = None] = [given EXCEPT !.analysis = None]
                  /\ Val(result.analysis).summary = Val(given.analysis).summary
                  /\ Len(after) = Len(before)
                  /\ \A k \in DOMAIN before :
                        IF \E j \in DOMAIN e : e[j].questionId = before[k].id
                          THEN \E j \in DOMAIN e :
                                  /\ e[j].questionId = before[k].id
                                  /\ after[k] = [id |-> before[k].id,
                                                 question |-> before[k].question,
                                                 userAnswer |-> before[k].userAnswer,
                                                 isCorrect |-> e[j].isCorrect,
                                                 feedback |-> e[j].feedback]
                          ELSE after[k] = before[k]]_vars

\* the ids in use in a collection: of its notes, quiz items and chat messages
UsedIds(ns) ==
  UNION { {ns[k].id} \cup {q.id : q \in QuizItemsOf(ns[k])}
                     \cup {m.id : m \in Range(History(ns[k]))} : k \in DOMAIN ns }

\* C12: a successfully applied analysis leaves the note with the summary of
\* the result and with exactly one item per question string of the result, in
\* the result's order, each with an id nothing else has, userAnswer "" and no
\* isCorrect / feedback; no item of the previous question set is among them.
C12_AnalysisReplacesWholesale ==
  [][\A i \in DOMAIN inflight : \A d \in AnalysisResponses :
       AnalyzeResolved(i, d)
         => LET result == FindNote(notes', inflight[i].note.id)
                after == Val(result.analysis).questions
                inUse == UNION {UsedIds(ns) : ns \in Collections}
            IN  /\ IsSome(result.analysis)
                /\ Val(result.analysis).summary = d.summary
                /\ Len(after) = Len(d.questions)
                /\ \A k \in DOMAIN after :
                      /\ after[k].question = d.questions[k]
                      /\ after[k].userAnswer = ""
                      /\ after[k].isCorrect = "absent" /\ after[k].feedback = "absent"
                      /\ after[k].id \notin inUse
                      /\ \A j \in DOMAIN after : j # k => after[j].id # after[k].id
                /\ \A ns \in Collections : \A k \in DOMAIN ns :
                      Range(after) \cap QuizItemsOf(ns[k]) = {}]_vars

\* C12 witness: the stored note with a graded item has been analyzed again,
\* as the only operation, and has the two fresh items of the result
C12_Witness ==
  /\ IsSome(applied) /\ Val(applied).kind = "analyze" /\ Val(applied).outcome = "resolved"
  /\ ops = 1 /\ HasNote(notes, 1)
  /\ LET n == FindNote(notes, 1)
     IN  /\ IsSome(n.chatHistory)
         /\ Val(n.analysis).summary = <<"s1", "s2">>
         /\ Len(Val(n.analysis).questions) = 2
         /\ \A q \in Range(Val(n.analysis).questions) :
               q.id >= 10 /\ q.userAnswer = "" /\ q.isCorrect = "absent"

\* the note carries a non-empty list of bare strings as its questions
AllStrings(note) ==
  /\ IsSome(note.analysis)
  /\ Len(Val(note.analysis).questions) > 0
  /\ \A q \in Range(Val(note.analysis).questions) : IsString(q)

\* the step is the load of a stored collection that parses
LoadsStored == LoadEffect /\ user # "none" /\ blobs[user].kind = "json"

\* C13: the load turns a stored note whose questions are a non-empty list of
\* bare strings into the same note with a question list of the same length,
\* element i being {id, question: the i-th string, userAnswer: ""} without
\* isCorrect / feedback; the ids are used by nothing else and differ pairwise
\* over the whole collection; every other field, the summary included, is kept.
C13_MigrationBuildsQuizItems ==
  [][LoadsStored
       => LET stored == blobs[user].notes
              loaded == Val(queued'.notes)
              inUse == UNION {UsedIds(ns) : ns \in Collections}
              new == {x \in (DOMAIN stored) \X (1..2) :
                        AllStrings(stored[x[1]]) /\ x[2] <= Len(Val(stored[x[1]].analysis).questions)}
          IN  /\ IsSome(queued'.notes) /\ Len(loaded) = Len(stored)
              /\ \A k \in DOMAIN stored :
                    AllStrings(stored[k])
                      => LET before == Val(stored[k].analysis).questions
                             after == Val(loaded[k].analysis).questions
                         IN  /\ [loaded[k] EXCEPT !.analysis = None]
                                  = [stored[k] EXCEPT !.analysis = None]
                             /\ Val(loaded[k].analysis).summary = Val(stored[k].analysis).summary
                             /\ Len(after) = Len(before)
                             /\ \A i \in DOMAIN before :
                                   /\ DOMAIN after[i] = {"id", "question", "userAnswer",
                                                         "isCorrect", "feedback"}
                                   /\ after[i].question = before[i].string
                                   /\ after[i].userAnswer = ""
                                   /\ after[i].isCorrect = "absent"
                                   /\ after[i].feedback = "absent"
                                   /\ after[i].id \notin inUse
              /\ \A x \in new, y \in new :
                    x # y => Val(loaded[x[1]].analysis).questions[x[2]].id
                               # Val(loaded[y[1]].analysis).questions[y[2]].id]_vars

\* C13 witness: the two legacy notes have been loaded, and the three items
\* made of their strings are in memory
C13_Witness ==
  /\ Len(notes) = 2 /\ notes[1].id = 9 /\ notes[2].id = 8
  /\ Val(notes[1].analysis).questions = <<QuizItem(20, "q1"), QuizItem(21, "q2")>>
  /\ Val(notes[2].analysis).questions = <<QuizItem(22, "q2")>>

\* C14: the migration applied to a migrated collection returns it as it is;
\* and the load returns unchanged every stored note that has no analysis, an
\* empty question list or questions in QuizItem form (ids, answers and grades
\* included).
C14_MigrationIdempotent ==
  /\ [](\A u \in Users :
          blobs[u].kind = "json"
            => LET once == migratedNotes(blobs[u].notes, nextId)
               IN  \A idBase \in nextId..(nextId + 4) : migratedNotes(once, idBase) = once)
  /\ [][LoadsStored
          => \A k \in DOMAIN blobs[user].notes :
                ~IsLegacy(blobs[user].notes[k])
                  => Val(queued'.notes)[k] = blobs[user].notes[k]]_vars

\* C14 witness: after a restart the migrated and persisted collection has
\* been loaded again, with the ids the first load gave and no id consumed
C14_Witness ==
  /\ ops >= 1 /\ Settled /\ user = "u1" /\ nextId = 22
  /\ Len(notes) = 2 /\ notes[1].id = 9 /\ notes[2] = StoredNewest
  /\ Val(notes[1].analysis).questions = <<QuizItem(20, "q1"), QuizItem(21, "q2")>>
  /\ blobs["u1"].notes = notes

\* C15: deleting a note removes exactly the note with that id and keeps the
\* others in their order; the selection moves to the first remaining note, or
\* to none, when the deleted note was selected, and stays otherwise.  Once the
\* effects have run on an emptied collection the stored collection is empty,
\* and the load of an empty stored collection yields the empty collection.
C15_RemoveDeletesOne ==
  /\ [][\A n \in Range(notes) :
          handleDeleteNote(n.id)
            => /\ \E i \in DOMAIN notes : notes[i].id = n.id /\ notes' = RemoveAt(notes, i)
               /\ ~HasNote(notes', n.id)
               /\ selectedNoteId' =
                    IF selectedNoteId # n.id THEN selectedNoteId
                    ELSE IF notes' = <<>> THEN NullId ELSE notes'[1].id]_vars
  /\ []((Settled /\ user # "none" /\ notes = <<>>) => blobs[user] = JsonBlob(<<>>))
  /\ [][(LoadsStored /\ blobs[user].notes = <<>>) => queued'.notes = Some(<<>>)]_vars

\* C15 witness: the only note of the collection has just been deleted: the
\* collection in memory is empty, nothing is selected, and the effect that
\* stores the empty collection is about to run
C15_Witness ==
  /\ user # "none" /\ notes = <<>> /\ selectedNoteId = NullId
  /\ pendingEffects = <<"persist">> /\ queued = NoUpdates
  /\ blobs[user].notes # <<>>

\* the step is a call of handleUpdateNote with a note of the given id: by the
\* Editor or the panel for the selected note, or by the continuation of a call
UpdateOf(id) ==
  \/ /\ id = selectedNoteId
     /\ \/ \E v \in Titles : handleTitleChange(v)
        \/ \E v \in Contents : handleContentChange(v)
        \/ \E q \in 1..nextId, a \in Answers : handleAnswerChange(q, a)
        \/ \E t \in ChatInputs : handleSendMessage(t)
  \/ \E i \in DOMAIN inflight :
        /\ inflight[i].note.id = id
        /\ ResultApplied(i) \/ ReplyAppended(i)

\* C16: an update replaces the note of the collection that has the id of the
\* given note, where it is; when no note has that id the collection stays as
\* it is; the number of notes and their order do not change.
C16_UpdateReplacesInPlace ==
  [][\A id \in 1..nextId :
       UpdateOf(id)
         => /\ Len(notes') = Len(notes)
            /\ \A k \in DOMAIN notes :
                  /\ notes'[k].id = notes[k].id
                  /\ notes[k].id # id => notes'[k] = notes[k]
            /\ ~HasNote(notes, id) => notes' = notes]_vars

\* C17: adding a note creates a note with an id nothing else has, empty title
\* and content, createdAt = updatedAt = the time of the call and neither
\* analysis nor chatHistory, puts it in front of the existing notes, which keep
\* their order, selects it, and schedules the effect that stores the collection.
C17_AddPrependsBlankNote ==
  [][handleAddNote
       => /\ Len(notes') = Len(notes) + 1
          /\ Tail(notes') = notes
          /\ notes'[1].id \notin UNION {UsedIds(ns) : ns \in Collections}
          /\ notes'[1].title = "" /\ notes'[1].content = ""
          /\ notes'[1].createdAt = clock /\ notes'[1].updatedAt = notes'[1].createdAt
          /\ notes'[1].analysis = None /\ notes'[1].chatHistory = None
          /\ selectedNoteId' = notes'[1].id
          /\ pendingEffects' = <<"persist">>]_vars

\* C18: the load for the active user of a key with nothing stored, or with a
\* stored text that does not parse, sets the empty collection and leaves the
\* user active and the session marker in place; the render that follows
\* commits the empty collection with the user still active.
C18_LoadFailsOpen ==
  /\ [][(LoadEffect /\ user # "none" /\ blobs[user].kind \in {"absent", "corrupt"})
          => /\ queued'.notes = Some(<<>>)
             /\ queued'.user = None
             /\ user' = user /\ currentUser' = currentUser]_vars
  /\ [][(Render /\ queued.notes = Some(<<>>) /\ queued.user = None)
          => notes' = <<>> /\ user' = user]_vars

\* C18 witness: the load has just read a stored text that does not parse and
\* has set the empty collection for the user, who is active
C18_Witness ==
  /\ user # "none" /\ currentUser = user
  /\ blobs[user].kind = "corrupt"
  /\ pendingEffects = <<"persist">>
  /\ queued.notes = Some(<<>>)

\* empty or white space only
Blank(s) == s = "" \/ s = " "

\* C19: handleAnalyze on a note whose content is empty or white space only
\* starts no provider call and leaves the note, the collection and the stored
\* collection as they are; it sets the error message and no busy flag.
C19_BlankContentNotAnalyzed ==
  [][(handleAnalyze /\ Blank(selectedNote.content))
       => /\ inflight' = inflight
          /\ notes' = notes /\ blobs' = blobs /\ pendingEffects' = pendingEffects
          /\ panel'.error = "Please add some content to the note first."
          /\ panel'.isAnalyzing = FALSE]_vars

\* C19 witness: the analysis of a note of white space has been refused
C19_Witness ==
  /\ Mounted(user, notes, selectedNoteId)
  /\ selectedNote.content = " "
  /\ panel.error = "Please add some content to the note first."
  /\ inflight = <<>> /\ ~panel.isAnalyzing

\* the items of a list whose answer is not blank, in their order
Answered(qs) == SelectSeqBy(qs, [k \in DOMAIN qs |-> ~Blank(qs[k].userAnswer)])

\* C20: handleCheckAnswers sends to the evaluation provider exactly the items
\* whose answer is not blank, in their order; when every answer is blank it
\* starts no call, sets the error message and leaves the note as it is.
C20_OnlyAnsweredSubmitted ==
  [][handleCheckAnswers
       => LET answered == Answered(Val(selectedNote.analysis).questions)
          IN  /\ notes' = notes /\ blobs' = blobs
              /\ IF answered = <<>>
                    THEN /\ inflight' = inflight
                         /\ panel'.error = "Please answer at least one question before checking."
                         /\ panel'.isChecking = FALSE
                    ELSE /\ Len(inflight') = Len(inflight) + 1
                         /\ SubSeq(inflight', 1, Len(inflight)) = inflight
                         /\ LET sent == inflight'[Len(inflight')].request.quizItems
                            IN  /\ inflight'[Len(inflight')].kind = "check"
                                /\ inflight'[Len(inflight')].request.called
                                /\ Len(sent) = Len(answered)
                                /\ \A k \in DOMAIN answered :
                                      /\ sent[k].questionId = answered[k].id
                                      /\ sent[k].question = answered[k].question
                                      /\ sent[k].userAnswer = answered[k].userAnswer]_vars

\* C20 witness: a check is in flight for a note whose first answer is white
\* space and whose second answer is a text, and one item was sent
C20_Witness ==
  /\ Len(inflight) = 1 /\ inflight[1].kind = "check"
  /\ Len(inflight[1].request.quizItems) = 1
  /\ inflight[1].request.quizItems[1].questionId = 3
  /\ Val(inflight[1].note.analysis).questions[1].userAnswer = " "
  /\ Val(inflight[1].note.analysis).questions[2].userAnswer = "ans"

\* C21: a send with a blank message text, or for a note whose content is
\* empty or white space only, appends no message, starts no chat query and
\* leaves the note as it is: no step of handleSendMessage happens for it.
C21_BlankSendRefused ==
  [][\A t \in ChatTexts :
       (Blank(t) \/ Blank(selectedNote.content)) => ~handleSendMessage(t)]_vars

\* a provider call of the Editor or the panel is rejected
Failed(i) == AnalyzeRejected(i) \/ CheckRejected(i) \/ OcrRejected(i)

\* C22: when an extraction, analysis or evaluation call fails, the failure is
\* shown (the alert of the Editor, the error of the panel that started the
\* call) and the collection is what it was before the failure was handled:
\* no note is written, in memory or in the store, and no save is scheduled.
C22_FailureWritesNothing ==
  [][\A i \in DOMAIN inflight :
       Failed(i) =>
         /\ notes' = notes /\ blobs' = blobs /\ pendingEffects' = pendingEffects
         /\ inflight[i].kind = "ocr" =>
               panel'.alert = "Failed to extract text from image. Please try again."
         /\ inflight[i].kind = "analyze" /\ inflight[i].live =>
               panel'.error = "Failed to generate analysis. Please try again."
         /\ inflight[i].kind = "check" /\ inflight[i].live =>
               panel'.error = "Failed to check answers. Please try again."]_vars

\* an import failed for a note that was edited while the call was in flight
C22_Witness ==
  /\ IsSome(applied) /\ Val(applied).kind = "ocr" /\ Val(applied).outcome = "rejected"
  /\ panel.alert = "Failed to extract text from image. Please try again."
  /\ ~panel.isProcessingImage
  /\ HasNote(notes, Val(applied).id)
  /\ FindNote(notes, Val(applied).id).updatedAt > 3

\* the store holds a record of this username
Registered(username) == \E k \in DOMAIN storedUsers : storedUsers[k].username = username

\* the active user and the session marker stay as they are
SessionKept == user' = user /\ currentUser' = currentUser

\* no two records of the store have the same username
UniqueUsernames ==
  \A j, k \in DOMAIN storedUsers :
     storedUsers[j].username = storedUsers[k].username => j = k

\* C23: a registration with a username the store holds (the same string, case
\* included) fails and changes neither the store nor the session: once the
\* form is filled in, which handleSubmit tests before it reads the store, the
\* error is "Username already taken".  Hence the store holds at most one record
\* per username, and no record ever changes, so a record keeps the password of
\* the registration that made it.
C23_DuplicateRefused ==
  /\ []UniqueUsernames
  /\ [][IsPrefix(storedUsers, storedUsers')]_vars
  /\ [][\A u \in Usernames, p \in Passwords :
          handleSubmit(FALSE, u, p) /\ Registered(u) =>
            /\ authError' = IF Blank(p) THEN "Please fill in all fields"
                                        ELSE "Username already taken"
            /\ storedUsers' = storedUsers /\ SessionKept]_vars

\* "alice" was refused a second registration while "Alice" got one
C23_Witness ==
  /\ authError = "Username already taken"
  /\ user = "none" /\ ops > 1
  /\ Len(storedUsers) = 2
  /\ storedUsers[1] = User("u1", "alice", "pw1")
  /\ storedUsers[2].username = "Alice"

\* the records of the store with this username and this password
Holders(username, password) ==
  { k \in DOMAIN storedUsers :
      storedUsers[k].username = username /\ storedUsers[k].password = password }

\* C24: a sign-in succeeds exactly when the store holds a record with the
\* username and the password given: that user becomes the active user and the
\* session marker.  Otherwise an error is shown ("Invalid username or
\* password" once the form is filled in) and the active user, the session
\* marker and the store stay as they are.  The store changes in neither case.
C24_AuthenticateExactMatch ==
  [][\A u \in Usernames, p \in Passwords :
       handleSubmit(TRUE, u, p) =>
         /\ storedUsers' = storedUsers
         /\ IF Holders(u, p) # {}
              THEN /\ \E k \in Holders(u, p) :
                         user' = storedUsers[k].id /\ currentUser' = storedUsers[k].id
                   /\ authError' = ""
              ELSE /\ authError' = IF Blank(u) \/ Blank(p)
                                     THEN "Please fill in all fields"
                                     ELSE "Invalid username or password"
                   /\ SessionKept]_vars

\* a sign-in was refused although both users are registered
C24_Witness ==
  /\ authError = "Invalid username or password"
  /\ user = "none" /\ currentUser = "none"
  /\ storedUsers = RegisteredUsers

\* a sign-in or a registration goes through
LogsIn ==
  \E isLogin \in BOOLEAN, username \in Usernames, password \in Passwords :
     handleSubmit(isLogin, username, password) /\ user' # "none"

\* what the load of a stored blob puts in memory, legacy questions aside
Restored(blob) == IF blob.kind = "json" THEN ReadNotes(blob.notes) ELSE <<>>

\* C25: a login makes the user active, stores the user as the session marker
\* and starts the load of the notes under the user's key; a restart keeps
\* marker and blobs and a logout removes the marker, and once the effects have
\* run the active user is the one of the marker (the user who logged in last
\* and did not log out; nobody after a logout) with the collection stored
\* under that user's key in memory.
C25_SessionResumes ==
  /\ [][LogsIn => /\ currentUser' = user' /\ blobs' = blobs
                  /\ pendingEffects' = <<"load", "persist">>]_vars
  /\ [][LoadEffect /\ user # "none"
          => /\ IsSome(queued'.notes) /\ blobs' = blobs
             /\ ReadNotes(Val(queued'.notes)) = Restored(blobs[user])]_vars
  /\ [][Restart => currentUser' = currentUser /\ blobs' = blobs /\ user' = "none"]_vars
  /\ [][handleLogout => currentUser' = "none"]_vars
  /\ [](Settled => user = currentUser)
  /\ [](Settled /\ user # "none"
          => blobs[user].kind = "json" /\ Restored(blobs[user]) = ReadNotes(notes))

\* the session of the first user was resumed after a restart, with the note
\* added before the restart in the collection
C25_Witness ==
  /\ Settled /\ user = "u1" /\ currentUser = "u1"
  /\ ops = 3 /\ applied = None
  /\ \E k \in DOMAIN notes : notes[k].createdAt >= 4
  /\ panel = InitialPanel /\ inflight = <<>> /\ authError = ""
  /\ selectedNoteId = notes[1].id /\ Len(notes) > 1 /\ notes[1].createdAt >= 4
  /\ notes[Len(notes)].id = 6

\* C26: a logout clears the active user and the session marker and leaves
\* every blob and the credential store as they are; the effects of its commit
\* empty the collection and the selection in memory; nothing is written to a
\* blob while nobody is logged in, and the load of the next login puts in
\* memory the collection stored under the user's key (a note written by this
\* version as it is stored), which at the logout, as in every state whose
\* effects have run, was the collection in memory.
C26_LogoutKeepsBlob ==
  /\ [][handleLogout
          => /\ user' = "none" /\ currentUser' = "none"
             /\ blobs' = blobs /\ storedUsers' = storedUsers
             /\ pendingEffects' = <<"load", "persist">>]_vars
  /\ [][LoadEffect /\ user = "none"
          => queued'.notes = Some(<<>>) /\ queued'.sel = Some(NullId)]_vars
  /\ [][Render /\ user' = "none" => notes' = <<>> /\ selectedNoteId' = NullId]_vars
  /\ [][user = "none" => blobs' = blobs /\ storedUsers' = storedUsers]_vars
  /\ [][LoadEffect /\ user # "none"
          => LET stored == Restored(blobs[user])
                 loaded == ReadNotes(Val(queued'.notes))
             IN  /\ Len(loaded) = Len(stored)
                 /\ \A k \in DOMAIN stored :
                       ~IsLegacy(stored[k]) => loaded[k] = stored[k]]_vars
  /\ [][Render /\ IsSome(queued.notes) => notes' = Val(queued.notes)]_vars
  /\ [](Settled /\ user # "none" => Restored(blobs[user]) = ReadNotes(notes))

\* the first user logged out with a call in flight: memory is empty, the
\* marker is gone and the notes are still stored
C26_Witness ==
  /\ Settled /\ user = "none" /\ currentUser = "none"
  /\ notes = <<>> /\ selectedNoteId = NullId
  /\ inflight # <<>> /\ ~inflight[1].live
  /\ blobs["u1"].kind = "json" /\ Len(blobs["u1"].notes) > 0

\* the id and the creation time of every note of a collection, in order
Identity(ns) == [k \in DOMAIN ns |-> <<ns[k].id, ns[k].createdAt>>]

\* C27: the id and the createdAt of a note never change after its creation:
\* the load with its migration hands on those of every stored note, and no
\* edit of title or content, image import, analysis, answer edit, grading,
\* chat message or chat reply changes those of any note in memory, so every
\* note ever written to a blob has the id and creation time it started with.
C27_IdentityKept ==
  /\ [][LoadsStored
          => /\ Identity(Val(queued'.notes)) = Identity(blobs[user].notes)
             /\ blobs' = blobs]_vars
  /\ [][Render /\ IsSome(queued.notes) => notes' = Val(queued.notes)]_vars
  /\ [][~Render => Identity(notes') = Identity(notes)]_vars
  /\ [](\A u \in Users : \A k \in DOMAIN blobs[u].notes :
           <<blobs[u].notes[k].id, blobs[u].notes[k].createdAt>>
             \in {<<n.id, n.createdAt>> :
                    n \in {StoredNewest, StoredOlder, StoredLegacy, StoredOther}})

\* the stored legacy note was migrated and an image was imported into it: it
\* has the id and creation time it was stored with
C27_Witness ==
  /\ Settled /\ Len(notes) = 1
  /\ notes[1].id = 1 /\ notes[1].createdAt = 1
  /\ notes[1].content = "c1\n\n--- Extracted from Image ---\nocr"
  /\ Val(notes[1].analysis).questions = <<QuizItem(10, "q1"), QuizItem(11, "q2")>>
  /\ blobs["u1"].notes[1].content = notes[1].content

\* the id and the text of every question of a note, in order
Skeleton(note) ==
  IF IsSome(note.analysis)
    THEN [k \in DOMAIN Val(note.analysis).questions |->
            <<Val(note.analysis).questions[k].id, Val(note.analysis).questions[k].question>>]
    ELSE <<>>

\* C28: while no analysis replaces the questions, no answer edit and no
\* evaluation changes the id or the text of a question, or the number or the
\* order of the questions of any note; so every entry of an evaluation result
\* that names a question of the note graded finds it in the stored note, which
\* then carries the verdict and the feedback of an entry for it.
C28_QuizItemsStable ==
  /\ [][/\ Len(notes') = Len(notes)
        /\ \A k \in DOMAIN notes : Skeleton(notes'[k]) = Skeleton(notes[k])]_vars
  /\ [][\A i \in DOMAIN inflight :
          \A e \in (IF inflight[i].kind = "check" /\ Len(inflight') < Len(inflight)
                      THEN AnyEvaluations(inflight[i].note) ELSE {}) :
            Graded(i, e)
              => LET after == Val(FindNote(notes', inflight[i].note.id).analysis).questions
                 IN  \A j \in DOMAIN e :
                        (\E q \in Range(Val(inflight[i].note.analysis).questions) :
                            q.id = e[j].questionId)
                          => \E k \in DOMAIN after, m \in DOMAIN e :
                                /\ after[k].id = e[j].questionId
                                /\ e[m].questionId = e[j].questionId
                                /\ after[k].isCorrect = e[m].isCorrect
                                /\ after[k].feedback = e[m].feedback]_vars

\* both questions were graded by one result after an answer was edited
C28_Witness ==
  /\ IsSome(applied) /\ Val(applied).kind = "check" /\ Val(applied).outcome = "resolved"
  /\ ops >= 2
  /\ Skeleton(notes[1]) = <<<<2, "q1">>, <<3, "q2">>>>
  /\ \A k \in 1..2 : Val(notes[1].analysis).questions[k].isCorrect = "false"

\* the step is the continuation of call i, resolved or rejected
Continued(i) ==
  ResultApplied(i) \/ ReplyAppended(i) \/ AnalyzeRejected(i) \/ CheckRejected(i)

\* C29: a removed note never comes back: when the result or the failure of a
\* call arrives for a note that is no longer in the collection, handling it
\* changes neither the collection in memory nor any blob, and schedules no
\* save.
C29_RemovedNeverReappears ==
  [][\A i \in DOMAIN inflight :
       Continued(i) /\ ~HasNote(notes, inflight[i].note.id)
         => /\ notes' = notes /\ blobs' = blobs
            /\ pendingEffects' = pendingEffects]_vars

\* C30: applying the result of a call for a note changes that note only: the
\* other notes of the collection, those added, edited or removed while the
\* call was in flight included, are after the step what they were before it.
C30_ResultChangesOnlyItsNote ==
  [][\A i \in DOMAIN inflight :
       (ResultApplied(i) \/ ReplyAppended(i))
         => FilterOut(notes', inflight[i].note.id)
              = FilterOut(notes, inflight[i].note.id)]_vars

\* the turns of a transcript as they are sent: role and text, no attachment
Turns(history) ==
  [k \in DOMAIN history |-> [role |-> history[k].role, text |-> history[k].content]]

\* C31: the turn list sent with a chat query is the transcript the note had
\* before the send (role and text of each message, once and in order) followed
\* by the new user message once; the note content is sent apart from it.
C31_ContextSentOnce ==
  [][\A t \in ChatTexts :
       handleSendMessage(t)
         => LET request == inflight'[Len(inflight')].request
            IN  /\ request.noteContent = selectedNote.content
                /\ request.contents
                     = Turns(History(selectedNote)) \o <<[role |-> "user", text |-> t]>>]_vars

\* the note selected, after the step
selectedAfter == FindNote(notes', selectedNoteId)

\* C32: a title edit, a content edit, the application of an analysis result
\* and a change of a quiz answer set updatedAt of the note to the current
\* time; appending a chat message, of the user or of the model, leaves the
\* updatedAt of the note as it is.
C32_UpdatedAtStamped ==
  [][/\ (\E v \in Titles : handleTitleChange(v)) => selectedAfter.updatedAt = clock
     /\ (\E v \in Contents : handleContentChange(v)) => selectedAfter.updatedAt = clock
     /\ \A i \in DOMAIN inflight :
           (\E d \in AnalysisResponses : AnalyzeResolved(i, d))
             => FindNote(notes', inflight[i].note.id).updatedAt = clock
     /\ (\E q \in 1..nextId, a \in Answers : handleAnswerChange(q, a))
           => selectedAfter.updatedAt = clock
     /\ (\E t \in ChatInputs : handleSendMessage(t))
           => selectedAfter.updatedAt = selectedNote.updatedAt
     /\ \A i \in DOMAIN inflight :
           ReplyAppended(i) /\ HasNote(notes, inflight[i].note.id)
             => FindNote(notes', inflight[i].note.id).updatedAt
                  = FindNote(notes, inflight[i].note.id).updatedAt]_vars

\* the texts of the questions of an analysis, in their order
QuestionTexts(analysis) ==
  [k \in DOMAIN analysis.questions |-> analysis.questions[k].question]

\* the analysis calls in flight for a note, by their position (the order of issue)
AnalysesOf(id) ==
  {i \in DOMAIN inflight : inflight[i].kind = "analyze" /\ inflight[i].note.id = id}

\* C33: analysis calls for one note that are in flight together are not fenced:
\* whichever of them resolves, whether it was issued first or last and whether
\* its panel is still mounted, its result becomes the analysis of the note and
\* the other calls stay in flight, so the note ends with the analysis of the
\* response that arrived last.
C33_LastArrivalWins ==
  [][\A i \in DOMAIN inflight : \A d \in AnalysisResponses :
       AnalyzeResolved(i, d)
         => LET id == inflight[i].note.id
                result == FindNote(notes', id)
            IN  /\ HasNote(notes', id) /\ IsSome(result.analysis)
                /\ Val(result.analysis).summary = d.summary
                /\ QuestionTexts(Val(result.analysis)) = d.questions
                /\ \A q \in Range(Val(result.analysis).questions) :
                      q.id >= nextId /\ q.id < nextId'
                /\ Len(inflight') = Len(inflight) - 1
                /\ \A j \in AnalysesOf(id) \ {i} :
                      LET k == IF j < i THEN j ELSE j - 1
                      IN  /\ inflight'[k].kind = "analyze"
                          /\ inflight'[k].note = inflight[j].note
                          /\ inflight'[k].request = inflight[j].request]_vars

\* C33 witness: the abandoned analysis and the one started by the only operation
\* were in flight together; the two-question response arrived first and took
\* the ids 10 and 11, the one-question response arrived last and is the
\* analysis of the note
C33_Witness ==
  /\ ops = 1 /\ inflight = <<>> /\ nextId = 13
  /\ IsSome(applied) /\ Val(applied).kind = "analyze" /\ Val(applied).outcome = "resolved"
  /\ Len(notes) = 1 /\ IsSome(notes[1].analysis)
  /\ Val(notes[1].analysis).summary = <<"s1">>
  /\ Len(Val(notes[1].analysis).questions) = 1
  /\ Val(notes[1].analysis).questions[1].id = 12

\* C34: in every state the selection is none or the id of a note of the
\* in-memory collection.
C34_SelectionInCollection ==
  selectedNoteId = NullId \/ HasNote(notes, selectedNoteId)

\* the chat queries in flight that were started by the mounted panel
LiveChats == {i \in DOMAIN inflight : inflight[i].kind = "chat" /\ inflight[i].live}

\* C35: no chat query is started while isChatting, by the send button or by
\* the Enter key: at most one chat query of the panel is in flight.
C35_OneChatInFlight ==
  /\ Cardinality(LiveChats) <= 1
  /\ (LiveChats # {}) => panel.isChatting

\* C36: an item whose answer was blank when the check was started has no
\* isCorrect and no feedback after the result is applied, whatever entries the
\* provider returned.
C36_BlankNeverGraded ==
  [][\A i \in DOMAIN inflight :
       \A e \in (IF inflight[i].kind = "check" /\ Len(inflight') < Len(inflight)
                   THEN AnyEvaluations(inflight[i].note) ELSE {}) :
          CheckResolved(i, e)
            => \A q \in Range(Val(inflight[i].note.analysis).questions) :
                  Blank(q.userAnswer)
                    => \A r \in Range(Val(FindNote(notes', inflight[i].note.id).analysis).questions) :
                          r.id = q.id => r.isCorrect = "absent" /\ r.feedback = "absent"]_vars

\* C37: while the user changes nothing, no step of a session replaces a stored
\* text that does not parse: the empty collection of the failed load stays in
\* memory.
C37_CorruptBlobKept ==
  [][\A u \in Users : blobs[u].kind = "corrupt" => blobs'[u] = blobs[u]]_vars

\* the ids of the QuizItems of the notes of a collection
QuizIds(ns) == UNION { {q.id : q \in QuizItemsOf(ns[k])} : k \in DOMAIN ns }

\* no note of the collection has its questions in the legacy form
Migrated(ns) == \A k \in DOMAIN ns : ~IsLegacy(ns[k])

\* C38: the migration is done once.  When the effects of a session have run,
\* the stored collection of the user is in QuizItem form and holds the
\* QuizItem ids of the collection in memory; a stored collection in QuizItem
\* form is never replaced by one in the legacy form; and the load of a stored
\* collection in QuizItem form, after a logout or a restart, returns it as it
\* is and generates no id.
C38_MigrationOnce ==
  /\ []((Settled /\ user # "none")
          => /\ blobs[user].kind = "json"
             /\ Migrated(blobs[user].notes)
             /\ QuizIds(blobs[user].notes) = QuizIds(notes))
  /\ [][\A u \in Users :
          (blobs[u].kind = "json" /\ Migrated(blobs[u].notes))
            => (blobs'[u].kind = "json" /\ Migrated(blobs'[u].notes))]_vars
  /\ [][(LoadsStored /\ Migrated(blobs[user].notes))
          => /\ Val(queued'.notes) = blobs[user].notes
             /\ nextId' = nextId]_vars

\* C38 witness: the legacy note was migrated at the first load (ids 10 and
\* 11) and persisted; after a logout and a login the load has returned the
\* stored items, and no id was generated
C38_Witness ==
  /\ ops = 2 /\ user = "u1" /\ notes = <<>> /\ IsSome(queued.notes)
  /\ nextId = 12
  /\ Val(queued.notes) = blobs["u1"].notes
  /\ Len(Val(queued.notes)) = 1
  /\ Val(Val(queued.notes)[1].analysis).questions = <<QuizItem(10, "q1"), QuizItem(11, "q2")>>

\* C39: with a provider that resolves or rejects every call, each busy flag
\* that an operation raised is reset: isAnalyzing, isChecking, isChatting and
\* isProcessingImage each lead to their being false again.
C39_BusyFlagsReset ==
  /\ panel.isAnalyzing ~> ~panel.isAnalyzing
  /\ panel.isChecking ~> ~panel.isChecking
  /\ panel.isChatting ~> ~panel.isChatting
  /\ panel.isProcessingImage ~> ~panel.isProcessingImage
====
